---- MODULE Spec2Model ----
(***************************************************************************)
(* Execution layer of the Visual Parser module:                            *)
(*   - ParserService   (src/src/parsers/iso20022Parser.ts:295-575)         *)
(*   - the parser Web Worker (src/unnamed/part_004)                        *)
(*   - the streaming delimited engine parseCSVStreaming                    *)
(*     (src/unnamed/part_006)                                              *)
(*                                                                         *)
(* JavaScript runs every event handler to completion.  handleParse has two *)
(* awaits (part_004:112, 126) and both await a promise that is already     *)
(* settled when it is returned (Papa.parse on a string calls chunk and     *)
(* complete synchronously inside the promise executor; parseWithWasm has   *)
(* no await of its own), so the continuation is a microtask and no other   *)
(* worker message is handled before handleParse ends.  One worker message  *)
(* is therefore one step of the model.  The only await that gives the      *)
(* worker's event loop back is the dynamic import of initializeWorker      *)
(* (part_004:60): init is two steps.                                       *)
(***************************************************************************)
EXTENDS Integers, Sequences, FiniteSets, TLC

\* ---------------------------------------------------------------- bounds
MaxRequests == 2      \* ParserService.parse calls
MaxWorkers == 2       \* ParserService.initialize calls that create a worker
MaxCtlCalls == 1      \* cancel / pause / resume calls on controllers
MaxChunks == 2        \* chunks Papa.parse cuts one input into
MaxRows == 1          \* rows in one chunk
SmallBytes == 5       \* size of a small input, in bytes
MultiByteExtra == 1   \* bytes beyond one per character in a non-ASCII input

\* ------------------------------------------------------ program constants
StreamThreshold == 1048576     \* part_004:107   1024 * 1024
ThrottleMs == 100              \* part_006:104
InitTimeoutMs == 5000          \* iso20022Parser.ts:346

RequestIds == 1..MaxRequests
WorkerIds == 1..MaxWorkers
NoWorker == 0                  \* workerInstance === null

\* ------------------------------------------------------------- helpers
\* Math.round(b / t * 100) for b >= 0, t > 0 (round half up).
RoundPct(b, t) == (200 * b + t) \div (2 * t)

NaN == -1                      \* Math.round(0 / 0 * 100)

\* A ParseProgress value (part_002: ParseProgress).
Progress(phase, bytes, total, recs, pct) ==
  [phase |-> phase, bytes |-> bytes, total |-> total, recs |-> recs, pct |-> pct]

NoProgress == Progress("none", 0, 0, 0, 0)

TerminalPhases == {"complete", "error", "cancelled"}
PhaseRank(p) ==
  CASE p = "initializing" -> 1
    [] p = "detecting" -> 2
    [] p = "parsing" -> 3
    [] p = "finalizing" -> 4
    [] OTHER -> 5

\* ------------------------------------------- streaming delimited engine
\* State of one parseCSVStreaming call: the closure variables of
\* part_006:24-33, the promise it returned, the progress events its
\* onProgress callback received (in call order), and halted: Papa's streamer
\* stopped before the end of the input (abort, or an exception).
StreamInit ==
  [bytesProcessed |-> 0, recordIndex |-> 0, events |-> <<>>,
   promise |-> "pending", error |-> "none", halted |-> FALSE]

\* A promise settles once: resolve() and reject() on a settled promise do
\* nothing.
Resolve(s) ==
  IF s.promise = "pending" THEN [s EXCEPT !.promise = "resolved"] ELSE s

Reject(s, err) ==
  IF s.promise = "pending"
    THEN [s EXCEPT !.promise = "rejected", !.error = err]
    ELSE s

\* onProgress as parseCSVStreaming sees it: the callback either returns
\* after taking the event, or throws (the worker's callback throws
\* Error('Cancelled') when its flag is set, part_004:116).
Emit(s, ev) == [s EXCEPT !.events = Append(@, ev)]

\* complete: part_006:122-149.  cbThrows: onProgress throws; the exception
\* leaves Papa.parse and the promise executor, which rejects the promise.
CompleteCallback(s, total, cbThrows) ==
  IF cbThrows
    THEN Reject(s, "Cancelled")
    ELSE Resolve(Emit(s, Progress("complete", total, total, s.recordIndex, 100)))

\* parser.abort() of Papa's ParserHandle: sets the aborted flag, and calls
\* the configured complete callback with the results so far (papaparse
\* ParserHandle.abort: "if (isFunction(_config.complete))
\* _config.complete(_results)").  The streamer then halts: no further
\* chunk, no second complete.
PapaAbort(s, total, cbThrows) ==
  [CompleteCallback(s, total, cbThrows) EXCEPT !.halted = TRUE]

\* ChunkBody with the cursor added to the running total instead of replacing
\* it ("bytesProcessed += results.meta.cursor").
ChunkBodyAccumulates(s, total, cursor, rows, elapsed, cbThrows) ==
  LET s1 == [s EXCEPT !.recordIndex = @ + rows,
                      !.bytesProcessed = @ + cursor]
      ev == Progress("parsing", s1.bytesProcessed, total, s1.recordIndex,
                     IF total > 0 THEN RoundPct(s1.bytesProcessed, total) ELSE NaN)
  IN IF ~elapsed THEN s1
     ELSE IF cbThrows THEN [Reject(s1, "Cancelled") EXCEPT !.halted = TRUE]
     ELSE Emit(s1, ev)

\* The part of chunk after the cancellation check: part_006:53-120.
\* rows: rows of this chunk; cursor: results.meta.cursor; elapsed: more than
\* ThrottleMs since the last progress update.
ChunkBody(s, total, cursor, rows, elapsed, cbThrows) ==
  LET s1 == [s EXCEPT !.recordIndex = @ + rows,
                      !.bytesProcessed = @ + (cursor - @)]
      ev == Progress("parsing", s1.bytesProcessed, total, s1.recordIndex,
                     IF total > 0 THEN RoundPct(s1.bytesProcessed, total) ELSE NaN)
  IN IF ~elapsed THEN s1
     ELSE IF cbThrows THEN [Reject(s1, "Cancelled") EXCEPT !.halted = TRUE]
     ELSE Emit(s1, ev)

\* chunk: part_006:45-121.  cancelled: what isCancelled() returns.
ChunkCallback(s, total, cursor, rows, elapsed, cancelled, cbThrows) ==
  IF cancelled
    THEN Reject(PapaAbort(s, total, cbThrows), "Cancelled")
    ELSE ChunkBody(s, total, cursor, rows, elapsed, cbThrows)

\* results.meta.cursor after chunk k of n of an input of chars characters:
\* Papa cuts the string every chunkSize characters.
Cursor(chars, n, k) == (k * chars) \div n

\* The whole synchronous run of Papa.parse from chunk k on: chunk per chunk,
\* then complete (Papa calls complete after the last chunk unless halted).
\* script[k]: the rows of chunk k, and whether the throttle lets a progress
\* event through after it.
RECURSIVE RunChunks(_, _, _, _, _, _, _)
RunChunks(s, total, chars, k, script, cancelled, cbThrows) ==
  IF s.halted THEN s
  ELSE IF k > Len(script) THEN CompleteCallback(s, total, cbThrows)
  ELSE RunChunks(
         ChunkCallback(s, total, Cursor(chars, Len(script), k), script[k].rows,
                       script[k].elapsed, cancelled, cbThrows),
         total, chars, k + 1, script, cancelled, cbThrows)

\* parseCSVStreaming(data, config, onProgress, isCancelled): part_006:17-155.
parseCSVStreaming(total, chars, script, cancelled, cbThrows) ==
  RunChunks(StreamInit, total, chars, 1, script, cancelled, cbThrows)

ChunkInputs == [rows : 0..MaxRows, elapsed : BOOLEAN]
Scripts == UNION {[1..n -> ChunkInputs] : n \in 1..MaxChunks}

\* ---------------------------------------------------------------- state
VARIABLES
  \* ParserService (iso20022Parser.ts:309-322)
  workerSupported,   \* typeof Worker !== 'undefined'
  workerInstance,    \* the worker held, or NoWorker
  workerReady,
  wasmAvailable,
  requestCounter,
  pendingRequests,   \* the keys of the pendingRequests map
  promise,           \* per request: the caller's parsePromise
  delivered,         \* per request: the events its onProgress received
  path,              \* per request: "worker" or "main" (how parse ran it)
  fallback,          \* per request: parse was called when workers were
                     \* unsupported or every initialize() so far had timed out
  ctl,               \* per request: the controller's isPaused / isCancelled
  ctlCalls,          \* controller calls made so far
  handshake,         \* per worker: the init handshake of its initialize()
  initResult,        \* per worker: the promise of its initialize() call
  mainHung,          \* the caller's thread is inside an engine call that
                     \* does not return
  \* workers (part_004:17-20 and the two message queues of each)
  alive,             \* per worker: "none", "running", "terminated"
  inbox,             \* per worker: messages posted to it, not yet handled
  outbox,            \* per worker: messages it posted, not yet delivered
  isCancelled,       \* per worker: part_004:18
  isPaused,          \* per worker: part_004:19
  wasmModule,        \* per worker: TRUE when the accelerated module loaded
  initBusy,          \* per worker: inside await initializeWorker()
  hung,              \* per worker: inside an engine call that does not return
  posted,            \* per request: the message types the worker posted for it
  received,          \* per request: the worker took its parse message
  cancelSent,        \* per request: a cancel message was posted for it
  \* one stand-alone parseCSVStreaming call
  sIn,               \* its inputs
  sK,                \* chunks handled so far
  st,                \* its state (StreamInit, ...)
  \* one call of a pure function of the parser layer
  call               \* NoCall, or the function, its input and what it gave

serviceVars ==
  <<workerSupported, workerInstance, workerReady, wasmAvailable, requestCounter,
    pendingRequests, promise, delivered, path, fallback, ctl, ctlCalls,
    handshake, initResult, mainHung>>
workerVars ==
  <<alive, inbox, outbox, isCancelled, isPaused, wasmModule, initBusy, hung,
    posted, received, cancelSent>>
streamVars == <<sIn, sK, st>>
libVars == <<streamVars, call>>
vars == <<serviceVars, workerVars, libVars>>

\* No call of a parser function was made.
NoCall == [fn |-> "none"]

\* A call made: the function, the type tag and input given, the output.
Call(fn, type, in, out) == [fn |-> fn, type |-> type, in |-> in, out |-> out]

\* ------------------------------------- stand-alone parseCSVStreaming call
\* The inputs of the call: totalBytes (part_006:25), the length of the
\* string in characters, and the number of chunks.
StreamInputs ==
  {[total |-> c + x, chars |-> c, n |-> n] :
     c \in {0, SmallBytes, StreamThreshold + 1},
     x \in {0, MultiByteExtra},
     n \in 1..MaxChunks}

StreamIdle ==
  /\ sIn = [total |-> 0, chars |-> 0, n |-> 0]
  /\ sK = 0
  /\ st = StreamInit

\* One chunk boundary: Papa calls chunk with the next chunk; the caller's
\* predicate answers cancelled; the clock decides elapsed.
StreamChunk ==
  /\ sIn.n > 0
  /\ ~st.halted
  /\ sK < sIn.n
  /\ \E rows \in 0..MaxRows, elapsed \in BOOLEAN, cancelled \in BOOLEAN :
       st' = ChunkCallback(st, sIn.total, Cursor(sIn.chars, sIn.n, sK + 1),
                           rows, elapsed, cancelled, FALSE)
  /\ sK' = sK + 1
  /\ UNCHANGED sIn

\* After the last chunk Papa calls complete (unless the streamer halted).
StreamComplete ==
  /\ sIn.n > 0
  /\ ~st.halted
  /\ sK = sIn.n
  /\ st' = CompleteCallback(st, sIn.total, FALSE)
  /\ sK' = sK + 1
  /\ UNCHANGED sIn

StreamNext == StreamChunk \/ StreamComplete

\* ------------------------------------------------------------- the worker
\* A message across the worker boundary: {type, id, payload}.  ev is the
\* ParseProgress payload of a progress message.
Msg(type, id, ev) == [type |-> type, id |-> id, ev |-> ev]

\* createProgress: part_004:196-211.
createProgress(phase, bytesProcessed, totalBytes, recordsProcessed) ==
  Progress(phase, bytesProcessed, totalBytes, recordsProcessed,
           IF totalBytes > 0 THEN RoundPct(bytesProcessed, totalBytes) ELSE 0)

\* postProgress: part_004:181-194.
postProgress(id, phase, bytesProcessed, totalBytes, recordsProcessed) ==
  Msg("progress", id,
      createProgress(phase, bytesProcessed, totalBytes, recordsProcessed))

\* totalBytes * 0.9 (part_004:176), rounded down: for whole numbers a and t,
\* a <= 0.9 t iff a <= floor(0.9 t), and 0.9 t <= t iff floor(0.9 t) <= t, so
\* the order with the neighbouring events is the one of the code.
NinetyPercent(totalBytes) == (9 * totalBytes) \div 10

Sizes == {SmallBytes, StreamThreshold, StreamThreshold + 1}

\* What a parse message carries and how its engine call ends:
\*   buf        request.data is an ArrayBuffer             (part_004:83)
\*   typed      request.config.type is set                 (part_004:95)
\*   csv        the type, given or detected, is csv        (part_004:106)
\*   total      new Blob([data]).size                      (part_004:92)
\*   streaming  request.options.streaming !== false        (part_004:105)
\*   useWasm    request.config.useWasm !== false           (part_004:124)
\*   outcome    of parse(data, config): "ok"; "throws"; "hangs" (the custom
\*              engine's match loop on a pattern that matches the empty
\*              string, sampleData.ts:575); "uncloneable" (a custom routine's
\*              dataset that postMessage cannot clone, sampleData.ts:539)
\*   recs       result.records.length
\*   script     the chunks of the streaming run
EngineRequests ==
  {[buf |-> b, typed |-> t, csv |-> c, total |-> z, streaming |-> sg,
    useWasm |-> uw, outcome |-> o, recs |-> r, script |-> <<>>] :
     b \in BOOLEAN, t \in BOOLEAN, c \in BOOLEAN, z \in Sizes, sg \in BOOLEAN,
     uw \in BOOLEAN, o \in {"ok", "throws", "hangs", "uncloneable"},
     r \in 0..MaxRows}

\* The size test of useStreaming with >= in place of >.
UseStreamingFromThreshold(req) ==
  req.streaming /\ req.csv /\ req.total >= StreamThreshold

UseStreaming(req) ==
  req.streaming /\ req.csv /\ req.total > StreamThreshold

\* The engine handleParse runs for a request: part_004:104-132.
SelectedEngine(req, wasm) ==
  IF UseStreaming(req) THEN "streaming"
  ELSE IF wasm /\ req.useWasm THEN "wasm"
  ELSE "plain"

StreamingRequests ==
  {[buf |-> b, typed |-> t, csv |-> TRUE, total |-> StreamThreshold + 1,
    streaming |-> TRUE, useWasm |-> uw, outcome |-> "ok", recs |-> 0,
    script |-> sc] :
     b \in BOOLEAN, t \in BOOLEAN, uw \in BOOLEAN, sc \in Scripts}

\* The custom engine is the one that hangs or returns what cannot be cloned;
\* a canonical recs where no dataset is returned.
WorkerRequests ==
  {req \in EngineRequests :
     /\ ~UseStreaming(req)
     /\ (req.outcome \in {"hangs", "uncloneable"} => ~req.csv)
     /\ (req.outcome \in {"hangs", "throws"} => req.recs = 0)}
  \cup StreamingRequests

\* The progress callback handleParse gives the streaming engine:
\* part_004:115-121.  It throws when the flag is set.
OnProgressThrows(cancelledFlag) == cancelledFlag

\* handleParse up to the engine call: part_004:78-98.
ParsePrelude(id, req) ==
  <<postProgress(id, "initializing", 0, 100, 0)>>
  \o (IF req.buf THEN <<postProgress(id, "detecting", 5, 100, 0)>> ELSE <<>>)
  \o (IF ~req.typed THEN <<postProgress(id, "detecting", 10, 100, 0)>> ELSE <<>>)

\* handleParse from the second cancellation check on: part_004:134-148, and
\* the catch of a postMessage that cannot clone the dataset: 149-159.
ParseFinish(id, req, recs, cancelledFlag) ==
  IF cancelledFlag THEN <<>>
  ELSE <<postProgress(id, "complete", req.total, req.total, recs)>>
       \o (IF req.outcome = "uncloneable"
             THEN <<Msg("error", id, NoProgress)>>
             ELSE <<Msg("result", id, NoProgress)>>)

\* catch: part_004:149-160.
ParseCatch(id, cancelledFlag) ==
  IF cancelledFlag THEN <<>> ELSE <<Msg("error", id, NoProgress)>>

ProgressMsgs(id, events) ==
  [i \in 1..Len(events) |-> Msg("progress", id, events[i])]

\* parseWithWasm: part_004:163-179 (the part after the engine returned).
parseWithWasmTail(id, req) ==
  <<postProgress(id, "finalizing", NinetyPercent(req.total), req.total, req.recs)>>

\* handleParse: part_004:71-161.  wasm: wasmModule is loaded.  The result is
\* the messages posted, in order, and whether the handler never returns.
\* cancelledFlag is the value isCancelled has throughout the handler: line 72
\* sets it, and no other handler runs before this one ends.
handleParse(id, req, wasm) ==
  LET cancelledFlag == FALSE
      pre == ParsePrelude(id, req)
      run == parseCSVStreaming(req.total, req.total, req.script, cancelledFlag,
                               OnProgressThrows(cancelledFlag))
      useWasmPath == SelectedEngine(req, wasm) = "wasm"
      engineStart ==
        IF useWasmPath
          THEN <<postProgress(id, "parsing", 15, 100, 0)>>
          ELSE <<postProgress(id, "parsing", 20, 100, 0)>>
  IN IF cancelledFlag THEN [msgs |-> pre, hangs |-> FALSE]
     ELSE IF UseStreaming(req)
       THEN [msgs |-> pre \o ProgressMsgs(id, run.events)
                      \o (IF run.promise = "resolved"
                            THEN ParseFinish(id, req, run.recordIndex, cancelledFlag)
                            ELSE ParseCatch(id, cancelledFlag)),
             hangs |-> FALSE]
     ELSE IF req.outcome = "hangs"
       THEN [msgs |-> pre \o engineStart, hangs |-> TRUE]
     ELSE IF req.outcome = "throws"
       THEN [msgs |-> pre \o engineStart \o ParseCatch(id, cancelledFlag),
             hangs |-> FALSE]
     ELSE [msgs |-> pre \o engineStart
                    \o (IF useWasmPath THEN parseWithWasmTail(id, req) ELSE <<>>)
                    \o ParseFinish(id, req, req.recs, cancelledFlag),
           hangs |-> FALSE]

Types(msgs) == [i \in 1..Len(msgs) |-> msgs[i].type]

WorkerRuns(w) == alive[w] = "running" /\ ~hung[w] /\ inbox[w] # <<>>

\* self.onmessage, case 'init', up to the await: part_004:27-28.
WorkerInitStart(w) ==
  /\ WorkerRuns(w)
  /\ Head(inbox[w]).type = "init"
  /\ inbox' = [inbox EXCEPT ![w] = Tail(@)]
  /\ initBusy' = [initBusy EXCEPT ![w] = TRUE]
  /\ UNCHANGED <<alive, outbox, isCancelled, isPaused, wasmModule, hung,
                 posted, received, cancelSent>>
  /\ UNCHANGED <<serviceVars, libVars>>

\* initializeWorker returns (part_004:55-69: the accelerated module loaded or
\* not), then postMessage ready: part_004:29.
WorkerInitDone(w) ==
  /\ alive[w] = "running" /\ ~hung[w]
  /\ initBusy[w]
  /\ \E loaded \in BOOLEAN : wasmModule' = [wasmModule EXCEPT ![w] = loaded]
  /\ initBusy' = [initBusy EXCEPT ![w] = FALSE]
  /\ outbox' = [outbox EXCEPT ![w] = Append(@, Msg("ready", 0, NoProgress))]
  /\ UNCHANGED <<alive, inbox, isCancelled, isPaused, hung, posted, received,
                 cancelSent>>
  /\ UNCHANGED <<serviceVars, libVars>>

\* self.onmessage, case 'parse': part_004:32-34.  payloads: what the caller
\* may have put into the message.
WorkerParse(w, payloads) ==
  /\ WorkerRuns(w)
  /\ Head(inbox[w]).type = "parse"
  /\ \E req \in payloads :
       LET id == Head(inbox[w]).id
           r == handleParse(id, req, wasmModule[w])
       IN /\ outbox' = [outbox EXCEPT ![w] = @ \o r.msgs]
          /\ hung' = [hung EXCEPT ![w] = r.hangs]
          /\ posted' = [posted EXCEPT ![id] = @ \o Types(r.msgs)]
          /\ received' = [received EXCEPT ![id] = TRUE]
  /\ inbox' = [inbox EXCEPT ![w] = Tail(@)]
  /\ isCancelled' = [isCancelled EXCEPT ![w] = FALSE]
  /\ isPaused' = [isPaused EXCEPT ![w] = FALSE]
  /\ UNCHANGED <<alive, wasmModule, initBusy, cancelSent>>
  /\ UNCHANGED <<serviceVars, libVars>>

\* self.onmessage, cases 'cancel', 'pause', 'resume': part_004:36-51.
WorkerControl(w) ==
  /\ WorkerRuns(w)
  /\ Head(inbox[w]).type \in {"cancel", "pause", "resume"}
  /\ LET m == Head(inbox[w])
     IN /\ isCancelled' =
             [isCancelled EXCEPT ![w] = IF m.type = "cancel" THEN TRUE ELSE @]
        /\ isPaused' =
             [isPaused EXCEPT ![w] = CASE m.type = "pause" -> TRUE
                                       [] m.type = "resume" -> FALSE
                                       [] OTHER -> @]
        /\ outbox' =
             [outbox EXCEPT ![w] =
                IF m.type = "cancel"
                  THEN Append(@, Msg("progress", m.id,
                                     createProgress("cancelled", 0, 0, 0)))
                  ELSE @]
        /\ posted' =
             [posted EXCEPT ![m.id] =
                IF m.type = "cancel" THEN Append(@, "progress") ELSE @]
  /\ inbox' = [inbox EXCEPT ![w] = Tail(@)]
  /\ UNCHANGED <<alive, wasmModule, initBusy, hung, received, cancelSent>>
  /\ UNCHANGED <<serviceVars, libVars>>

\* ------------------------------------------------------- ParserService
Created == {w \in WorkerIds : alive[w] # "none"}

\* initialize(), Worker supported and constructed: iso20022Parser.ts:332-360.
\* The new worker replaces whatever workerInstance held; the executor adds
\* initHandler, starts the timer and posts init.
Initialize(maxWorkers) ==
  /\ ~mainHung
  /\ workerSupported
  /\ Cardinality(Created) < maxWorkers
  /\ LET w == Cardinality(Created) + 1
     IN /\ alive' = [alive EXCEPT ![w] = "running"]
        /\ workerInstance' = w
        /\ handshake' = [handshake EXCEPT ![w] = "waiting"]
        /\ initResult' = [initResult EXCEPT ![w] = "pending"]
        /\ inbox' = [inbox EXCEPT ![w] = <<Msg("init", 0, NoProgress)>>]
  /\ UNCHANGED <<workerSupported, workerReady, wasmAvailable, requestCounter,
                 pendingRequests, promise, delivered, path, ctl, ctlCalls,
                 mainHung>>
  /\ UNCHANGED <<outbox, isCancelled, isPaused, wasmModule, initBusy, hung,
                 posted, received, cancelSent>>
  /\ UNCHANGED libVars
  /\ UNCHANGED fallback

\* initialize() where Worker is undefined: iso20022Parser.ts:333-335, 370.
\* Nothing is created and the call returns.
InitializeUnsupported ==
  /\ ~mainHung
  /\ ~workerSupported
  /\ UNCHANGED vars

\* The catch without "workerInstance = null".
InitCatchKeepsWorker ==
  /\ UNCHANGED workerInstance
  /\ workerReady' = FALSE

\* The catch of initialize(): iso20022Parser.ts:363-367.
InitCatch ==
  /\ workerInstance' = NoWorker
  /\ workerReady' = FALSE

\* The 5 s timer of an initialize() fires before ready arrived: the promise
\* of the handshake rejects, the catch runs and initialize() returns:
\* iso20022Parser.ts:346, 363-370.
InitTimeout(w) ==
  /\ ~mainHung
  /\ handshake[w] = "waiting"
  /\ handshake' = [handshake EXCEPT ![w] = "timedout"]
  /\ InitCatch
  /\ initResult' = [initResult EXCEPT ![w] = "returned"]
  /\ UNCHANGED <<workerSupported, wasmAvailable, requestCounter,
                 pendingRequests, promise, delivered, path, ctl, ctlCalls,
                 mainHung>>
  /\ UNCHANGED <<workerVars, libVars>>
  /\ UNCHANGED fallback

\* Workers are unsupported, or every initialize() so far ended in the
\* handshake timeout.
FailedInitOnly ==
  \/ ~workerSupported
  \/ Created # {} /\ \A w \in Created : handshake[w] = "timedout"

\* const useWorker = ...: iso20022Parser.ts:387.
UseWorker(useWorkerOption) ==
  useWorkerOption /\ workerReady /\ workerInstance # NoWorker

\* What the main-thread fallback sees of one request:
\*   total    data.length or data.byteLength           (iso20022Parser.ts:417)
\*   outcome  of parse(stringData, config)             (iso20022Parser.ts:424)
\*   fileSize result.metadata.fileSize || 0            (iso20022Parser.ts:428)
\*   recs     result.records.length                    (iso20022Parser.ts:430)
MainRequests ==
  {[total |-> z, outcome |-> o, fileSize |-> f, recs |-> r] :
     z \in Sizes, o \in {"ok", "throws", "hangs"}, f \in {0} \cup Sizes,
     r \in 0..MaxRows}

MainRuns ==
  {req \in MainRequests :
     /\ req.fileSize \in {0, req.total}
     /\ (req.outcome # "ok" => req.fileSize = 0 /\ req.recs = 0)}

\* The completion event given to onProgress whatever the engine did.
MainEventsAlwaysComplete(req) ==
  <<Progress("parsing", 0, req.total, 0, 0),
    Progress("complete", req.fileSize, req.fileSize, req.recs, 100)>>

\* The events the main-thread fallback gives onProgress:
\* iso20022Parser.ts:414-433.
MainEvents(req) ==
  <<Progress("parsing", 0, req.total, 0, 0)>>
  \o (IF req.outcome = "ok"
        THEN <<Progress("complete", req.fileSize, req.fileSize, req.recs, 100)>>
        ELSE <<>>)

\* parse(), worker branch: iso20022Parser.ts:386-410.
ParseOnWorker(maxRequests) ==
  /\ ~mainHung
  /\ requestCounter < maxRequests
  /\ UseWorker(TRUE)
  /\ LET id == requestCounter + 1
     IN /\ requestCounter' = id
        /\ pendingRequests' = pendingRequests \cup {id}
        /\ promise' = [promise EXCEPT ![id] = "pending"]
        /\ path' = [path EXCEPT ![id] = "worker"]
        /\ fallback' = [fallback EXCEPT ![id] = FailedInitOnly]
        /\ inbox' = [inbox EXCEPT ![workerInstance] =
                       Append(@, Msg("parse", id, NoProgress))]
  /\ UNCHANGED <<workerSupported, workerInstance, workerReady, wasmAvailable,
                 delivered, ctl, ctlCalls, handshake, initResult, mainHung>>
  /\ UNCHANGED <<alive, outbox, isCancelled, isPaused, wasmModule, initBusy,
                 hung, posted, received, cancelSent>>
  /\ UNCHANGED libVars

\* parse(), main thread fallback: iso20022Parser.ts:386-390, 411-439.
ParseOnMain(maxRequests, payloads) ==
  /\ ~mainHung
  /\ requestCounter < maxRequests
  /\ \E useWorkerOption \in BOOLEAN, req \in payloads :
       /\ ~UseWorker(useWorkerOption)
       /\ LET id == requestCounter + 1
          IN /\ requestCounter' = id
             /\ path' = [path EXCEPT ![id] = "main"]
             /\ fallback' = [fallback EXCEPT ![id] = FailedInitOnly]
             /\ delivered' = [delivered EXCEPT ![id] = MainEvents(req)]
             /\ promise' = [promise EXCEPT ![id] =
                              CASE req.outcome = "ok" -> "resolved"
                                [] req.outcome = "throws" -> "rejected"
                                [] OTHER -> "pending"]
             /\ mainHung' = (req.outcome = "hangs")
  /\ UNCHANGED <<workerSupported, workerInstance, workerReady, wasmAvailable,
                 pendingRequests, ctl, ctlCalls, handshake, initResult>>
  /\ UNCHANGED <<workerVars, libVars>>

\* initHandler: iso20022Parser.ts:348-356.  It was added to worker w by the
\* initialize() that created w, and reads every message of w.
InitHandlerReady(w) ==
  /\ workerReady' = TRUE
  /\ wasmAvailable' = FALSE     \* the ready message has no payload
  /\ handshake' = [handshake EXCEPT ![w] =
                     IF @ = "waiting" THEN "ready" ELSE @]
  /\ initResult' = [initResult EXCEPT ![w] =
                      IF handshake[w] = "waiting" THEN "returned" ELSE @]

\* handleWorkerMessage: iso20022Parser.ts:511-536.
HandleProgress(m) ==
  /\ delivered' = [delivered EXCEPT ![m.id] = Append(@, m.ev)]
  /\ UNCHANGED <<pendingRequests, promise>>

HandleResult(m) ==
  /\ promise' = [promise EXCEPT ![m.id] = "resolved"]
  /\ pendingRequests' = pendingRequests \ {m.id}
  /\ UNCHANGED delivered

HandleError(m) ==
  /\ promise' = [promise EXCEPT ![m.id] = "rejected"]
  /\ pendingRequests' = pendingRequests \ {m.id}
  /\ UNCHANGED delivered

\* One message of worker w reaches the main thread: both listeners of the
\* worker run on it.
Deliver(w) ==
  /\ ~mainHung
  /\ alive[w] = "running"
  /\ outbox[w] # <<>>
  /\ LET m == Head(outbox[w])
     IN IF m.type = "ready"
          THEN /\ InitHandlerReady(w)
               /\ UNCHANGED <<pendingRequests, promise, delivered>>
          ELSE /\ UNCHANGED <<workerReady, wasmAvailable, handshake, initResult>>
               /\ IF m.id \notin pendingRequests
                    THEN UNCHANGED <<pendingRequests, promise, delivered>>
                    ELSE CASE m.type = "progress" -> HandleProgress(m)
                           [] m.type = "result" -> HandleResult(m)
                           [] OTHER -> HandleError(m)
  /\ outbox' = [outbox EXCEPT ![w] = Tail(@)]
  /\ UNCHANGED <<workerSupported, workerInstance, requestCounter, path, ctl,
                 ctlCalls, mainHung>>
  /\ UNCHANGED <<alive, inbox, isCancelled, isPaused, wasmModule, initBusy,
                 hung, posted, received, cancelSent>>
  /\ UNCHANGED libVars
  /\ UNCHANGED fallback

\* terminate(): iso20022Parser.ts:498-505.  Worker.terminate() discards the
\* worker's queued tasks and the messages it posted that were not delivered.
Terminate ==
  /\ ~mainHung
  /\ IF workerInstance # NoWorker
       THEN /\ alive' = [alive EXCEPT ![workerInstance] = "terminated"]
            /\ inbox' = [inbox EXCEPT ![workerInstance] = <<>>]
            /\ outbox' = [outbox EXCEPT ![workerInstance] = <<>>]
            /\ initBusy' = [initBusy EXCEPT ![workerInstance] = FALSE]
            /\ workerInstance' = NoWorker
            /\ workerReady' = FALSE
       ELSE UNCHANGED <<alive, inbox, outbox, initBusy, workerInstance,
                        workerReady>>
  /\ pendingRequests' = {}
  /\ UNCHANGED <<workerSupported, wasmAvailable, requestCounter, promise,
                 delivered, path, ctl, ctlCalls, handshake, initResult,
                 mainHung>>
  /\ UNCHANGED <<isCancelled, isPaused, wasmModule, hung, posted, received,
                 cancelSent>>
  /\ UNCHANGED libVars
  /\ UNCHANGED fallback

\* parse() returning the controller without awaiting parsePromise.
ControllerAvailableEarly(id) == promise[id] \in {"pending", "resolved"}

\* parse() returning the controller once parsePromise has settled either
\* way.
ControllerAvailableOnSettle(id) == promise[id] \in {"resolved", "rejected"}

\* parse() returns {data, controller} once parsePromise has resolved:
\* iso20022Parser.ts:442.  Only then does the caller hold the controller.
ControllerAvailable(id) == promise[id] = "resolved"

\* postMessage of a controller: iso20022Parser.ts:548-550, 555-557, 561-563.
ControllerPost(type, id) ==
  IF workerInstance # NoWorker
    THEN inbox' = [inbox EXCEPT ![workerInstance] =
                     Append(@, Msg(type, id, NoProgress))]
    ELSE UNCHANGED inbox

\* controller.cancel(): iso20022Parser.ts:546-552.
Cancel(id) ==
  /\ ~mainHung
  /\ ControllerAvailable(id)
  /\ ctlCalls < MaxCtlCalls
  /\ ctlCalls' = ctlCalls + 1
  /\ ctl' = [ctl EXCEPT ![id].isCancelled = TRUE]
  /\ ControllerPost("cancel", id)
  /\ cancelSent' = [cancelSent EXCEPT ![id] = @ \/ workerInstance # NoWorker]
  /\ pendingRequests' = pendingRequests \ {id}
  /\ UNCHANGED <<workerSupported, workerInstance, workerReady, wasmAvailable,
                 requestCounter, promise, delivered, path, handshake,
                 initResult, mainHung>>
  /\ UNCHANGED <<alive, outbox, isCancelled, isPaused, wasmModule, initBusy,
                 hung, posted, received>>
  /\ UNCHANGED libVars
  /\ UNCHANGED fallback

\* controller.pause() and controller.resume(): iso20022Parser.ts:553-564.
PauseResume(id) ==
  /\ ~mainHung
  /\ ControllerAvailable(id)
  /\ ctlCalls < MaxCtlCalls
  /\ ctlCalls' = ctlCalls + 1
  /\ \E type \in {"pause", "resume"} :
       /\ ctl' = [ctl EXCEPT ![id].isPaused = (type = "pause")]
       /\ ControllerPost(type, id)
  /\ UNCHANGED <<workerSupported, workerInstance, workerReady, wasmAvailable,
                 requestCounter, pendingRequests, promise, delivered, path,
                 handshake, initResult, mainHung>>
  /\ UNCHANGED <<alive, outbox, isCancelled, isPaused, wasmModule, initBusy,
                 hung, posted, received, cancelSent>>
  /\ UNCHANGED libVars
  /\ UNCHANGED fallback

\* An option or config property that may be absent.
Optional == {"undefined", "true", "false"}

\* The payload parse() posts to the worker: iso20022Parser.ts:400-409.  The
\* spread puts options.useWasm over the useWasm of the caller's config, and
\* options.streaming into options.  As the worker reads them: part_004:105,
\* 106, 107, 124.
WorkerPayload(configUseWasm, optionsUseWasm, optionsStreaming, csv, total) ==
  [useWasm |-> optionsUseWasm # "false",
   streaming |-> optionsStreaming # "false",
   csv |-> csv, total |-> total]

\* The engine one parse(data, config, options) call selects in the present
\* state of the service and of the worker it holds: iso20022Parser.ts:386-411
\* and part_004:104-132.
SelectEngine(useWorker, cfgWasm, optWasm, optStreaming, csv, total) ==
  IF UseWorker(useWorker # "false")
    THEN SelectedEngine(
           WorkerPayload(cfgWasm, optWasm, optStreaming, csv, total),
           wasmModule[workerInstance])
    ELSE "main"

\* One engine selection, with what it was made from.
SelectCall ==
  /\ ~mainHung
  /\ call = NoCall
  /\ \E useWorker \in Optional, configUseWasm \in Optional,
        optionsUseWasm \in Optional, optionsStreaming \in Optional,
        csv \in BOOLEAN, total \in Sizes :
       call' =
         Call("select", "none",
              [useWorker |-> useWorker, configUseWasm |-> configUseWasm,
               requestUseWasm |-> optionsUseWasm,
               streaming |-> optionsStreaming, csv |-> csv, total |-> total,
               workerReady |-> workerReady,
               hasWorker |-> workerInstance # NoWorker,
               wasmLoaded |-> IF workerInstance # NoWorker
                                THEN wasmModule[workerInstance] ELSE FALSE],
              SelectEngine(useWorker, configUseWasm, optionsUseWasm,
                           optionsStreaming, csv, total))
  /\ UNCHANGED <<serviceVars, workerVars, streamVars>>

\* ------------------------------------------------------- specifications
ServiceInit ==
  /\ workerSupported \in BOOLEAN
  /\ workerInstance = NoWorker
  /\ workerReady = FALSE
  /\ wasmAvailable = FALSE
  /\ requestCounter = 0
  /\ pendingRequests = {}
  /\ promise = [id \in RequestIds |-> "none"]
  /\ delivered = [id \in RequestIds |-> <<>>]
  /\ path = [id \in RequestIds |-> "none"]
  /\ fallback = [id \in RequestIds |-> FALSE]
  /\ ctl = [id \in RequestIds |-> [isPaused |-> FALSE, isCancelled |-> FALSE]]
  /\ ctlCalls = 0
  /\ handshake = [w \in WorkerIds |-> "none"]
  /\ initResult = [w \in WorkerIds |-> "none"]
  /\ mainHung = FALSE
  /\ alive = [w \in WorkerIds |-> "none"]
  /\ inbox = [w \in WorkerIds |-> <<>>]
  /\ outbox = [w \in WorkerIds |-> <<>>]
  /\ isCancelled = [w \in WorkerIds |-> FALSE]
  /\ isPaused = [w \in WorkerIds |-> FALSE]
  /\ wasmModule = [w \in WorkerIds |-> FALSE]
  /\ initBusy = [w \in WorkerIds |-> FALSE]
  /\ hung = [w \in WorkerIds |-> FALSE]
  /\ posted = [id \in RequestIds |-> <<>>]
  /\ received = [id \in RequestIds |-> FALSE]
  /\ cancelSent = [id \in RequestIds |-> FALSE]

Init == ServiceInit /\ StreamIdle /\ call = NoCall

\* The payloads of the concurrent scenarios: one per path through handleParse
\* and per outcome (typed string input, one chunk, small unless streamed).
CoarseRequests ==
  {req \in WorkerRequests :
     /\ ~req.buf /\ req.typed /\ req.streaming /\ req.useWasm
     /\ req.total = (IF req.csv THEN StreamThreshold + 1 ELSE SmallBytes)
     /\ (req.outcome \in {"ok", "uncloneable"} /\ ~UseStreaming(req)
           => req.recs = MaxRows)
     /\ (UseStreaming(req)
           => req.script = <<[rows |-> MaxRows, elapsed |-> TRUE]>>)}

CoarseMainRuns ==
  {req \in MainRuns :
     /\ req.total = SmallBytes
     /\ (req.outcome = "ok" => req.fileSize = req.total /\ req.recs = MaxRows)}

\* The service, its caller and its workers: the caller makes at most
\* maxRequests parse calls and at most maxWorkers initialize calls, with the
\* given payloads.
Service(maxRequests, maxWorkers, payloads, mainPayloads) ==
  \/ Initialize(maxWorkers)
  \/ InitializeUnsupported
  \/ \E w \in WorkerIds : InitTimeout(w)
  \/ ParseOnWorker(maxRequests)
  \/ ParseOnMain(maxRequests, mainPayloads)
  \/ \E w \in WorkerIds : Deliver(w)
  \/ Terminate
  \/ \E id \in RequestIds : Cancel(id)
  \/ \E id \in RequestIds : PauseResume(id)
  \/ \E w \in WorkerIds : WorkerInitStart(w)
  \/ \E w \in WorkerIds : WorkerInitDone(w)
  \/ \E w \in WorkerIds : WorkerParse(w, payloads)
  \/ \E w \in WorkerIds : WorkerControl(w)

\* Concurrent requests and workers.
Next == Service(MaxRequests, MaxWorkers, CoarseRequests, CoarseMainRuns)

Spec == Init /\ [][Next]_vars

\* One request with any payload, one worker.
NextRun == Service(1, 1, WorkerRequests, MainRuns)

SpecRun == Init /\ [][NextRun]_vars

\* One parseCSVStreaming call with an arbitrary cancellation predicate.
StreamStart ==
  /\ ServiceInit
  /\ workerSupported
  /\ sIn \in StreamInputs
  /\ sK = 0
  /\ st = StreamInit
  /\ call = NoCall

NextStream == StreamNext /\ UNCHANGED <<serviceVars, workerVars, call>>

SpecStream == StreamStart /\ [][NextStream]_vars

\* One request whose engine call returns or throws, one worker, and the
\* scheduling the platform guarantees: a running worker handles the
\* messages of its queue, the messages it posted are delivered to the main
\* thread, and a pending handshake timer fires.  What the caller does
\* (initialize, parse, terminate, the controller calls) is under no
\* obligation.
ReturningRequests == {req \in WorkerRequests : req.outcome # "hangs"}
ReturningMainRuns == {req \in MainRuns : req.outcome # "hangs"}

NextFair == Service(1, 1, ReturningRequests, ReturningMainRuns)

Fairness ==
  \A w \in WorkerIds :
    /\ WF_vars(WorkerInitStart(w))
    /\ WF_vars(WorkerInitDone(w))
    /\ WF_vars(WorkerParse(w, ReturningRequests))
    /\ WF_vars(WorkerControl(w))
    /\ WF_vars(Deliver(w))
    /\ WF_vars(InitTimeout(w))

SpecFair == Init /\ [][NextFair]_vars /\ Fairness

\* The life of the service and of one worker, and one engine selection made
\* at any point of it.
NextSelect ==
  \/ Initialize(1)
  \/ InitializeUnsupported
  \/ \E w \in WorkerIds : InitTimeout(w)
  \/ \E w \in WorkerIds : Deliver(w)
  \/ Terminate
  \/ \E w \in WorkerIds : WorkerInitStart(w)
  \/ \E w \in WorkerIds : WorkerInitDone(w)
  \/ SelectCall

SpecSelect == Init /\ [][NextSelect]_vars

\* ----------------------------------------------------------- properties
IsTerminalMsg(t) == t \in {"result", "error"}
Count(seq, P(_)) == Cardinality({i \in 1..Len(seq) : P(seq[i])})
IsError(t) == t = "error"

\* C1: an entry leaves the pending-request map only in a step that settles
\* its promise (the worker's result or error message for that id) or that is
\* controller.cancel() for that id.
C1_RemovedOnlyByTerminalEvent ==
  [][\A id \in RequestIds :
       (id \in pendingRequests /\ id \notin pendingRequests')
         => \/ promise[id] = "pending" /\ promise'[id] \in {"resolved", "rejected"}
            \/ ~ctl[id].isCancelled /\ ctl'[id].isCancelled]_vars

\* C3: for every parse message the worker has taken and for which no cancel
\* was sent, the messages posted for that id are progress messages followed
\* by exactly one result or error, which is the last one.  (The handler of a
\* message is one step: after the take it has returned, or it never returns.)
C3_ProgressThenOneTerminal ==
  \A id \in RequestIds :
    (received[id] /\ ~cancelSent[id])
      => /\ Count(posted[id], IsTerminalMsg) = 1
         /\ IsTerminalMsg(posted[id][Len(posted[id])])

\* C4: when the cancellation predicate has returned true at a chunk
\* boundary, the promise of parseCSVStreaming is not resolved, no 'complete'
\* event was emitted, and the promise is rejected with 'Cancelled'.
C4_CancelRejects ==
  st.halted
    => /\ st.promise = "rejected"
       /\ st.error = "Cancelled"
       /\ \A i \in 1..Len(st.events) : st.events[i].phase # "complete"

\* C5: once a cancel message has been sent for a request, the worker posts no
\* error message for it, and the promise of a request whose cancel() was
\* called is never rejected.
C5_NoErrorAfterCancel ==
  /\ [](\A id \in RequestIds : ctl[id].isCancelled => promise[id] # "rejected")
  /\ [][\A id \in RequestIds :
          cancelSent[id]
            => Count(posted'[id], IsError) = Count(posted[id], IsError)]_vars

\* C5 witness: a cancel message was sent for a request of the worker path
\* and the worker has handled it.
C5_Witness ==
  \E id \in RequestIds, w \in WorkerIds :
    /\ cancelSent[id]
    /\ path[id] = "worker"
    /\ isCancelled[w]
    /\ Len(posted[id]) > 0
    /\ posted[id][Len(posted[id])] = "progress"

\* C6: for every request run through the worker, the progress events
\* delivered to the caller have non-decreasing bytesProcessed and
\* non-decreasing recordsProcessed.
C6_DeliveredMonotone ==
  \A id \in RequestIds :
    path[id] = "worker"
      => \A i, j \in 1..Len(delivered[id]) :
           i < j => /\ delivered[id][i].bytes <= delivered[id][j].bytes
                    /\ delivered[id][i].recs <= delivered[id][j].recs

\* C7: in one parseCSVStreaming run the bytesProcessed of the emitted events
\* never decreases; no 'complete' event is emitted while the promise is
\* pending; and when the promise has resolved there is exactly one
\* 'complete' event, it is the last event, with percentage 100 and
\* bytesProcessed = totalBytes.
C7_StreamProgress ==
  LET ev == st.events
      IsComplete(e) == e.phase = "complete"
  IN /\ \A i, j \in 1..Len(ev) : i < j => ev[i].bytes <= ev[j].bytes
     /\ st.promise = "pending" => Count(ev, IsComplete) = 0
     /\ st.promise = "resolved"
          => /\ Count(ev, IsComplete) = 1
             /\ IsComplete(ev[Len(ev)])
             /\ ev[Len(ev)].pct = 100
             /\ ev[Len(ev)].bytes = sIn.total
             /\ ev[Len(ev)].total = sIn.total

\* C7 witness: a run of a multi-byte input that was not cancelled has
\* resolved after a progress event for every chunk.
C7_Witness ==
  /\ st.promise = "resolved"
  /\ ~st.halted
  /\ sIn.total > sIn.chars
  /\ sIn.chars > 0
  /\ Len(st.events) = MaxChunks + 1

\* C8: the phases delivered for one request follow the request state
\* machine: the non-terminal phases in the order initializing, detecting,
\* parsing, finalizing; no event after an event of a terminal phase; and once
\* the request has ended, the last event has the terminal phase of its
\* outcome (complete on success, error on failure, cancelled on cancel).
C8_PhasePath ==
  \A id \in RequestIds :
    LET d == delivered[id]
    IN /\ \A i, j \in 1..Len(d) :
            i < j => /\ d[i].phase \notin TerminalPhases
                     /\ PhaseRank(d[i].phase) <= PhaseRank(d[j].phase)
       /\ promise[id] = "resolved" /\ ~ctl[id].isCancelled
            => d # <<>> /\ d[Len(d)].phase = "complete"
       /\ promise[id] = "rejected"
            => d # <<>> /\ d[Len(d)].phase = "error"
       /\ ctl[id].isCancelled
            => d # <<>> /\ d[Len(d)].phase \in TerminalPhases

\* C9: at most one worker is created and not terminated.
C9_AtMostOneWorker ==
  Cardinality({w \in WorkerIds : alive[w] = "running"}) <= 1

\* C10: an initialize() whose handshake timed out has returned (it does not
\* reject), and a parse called when workers are unsupported or every
\* initialize() so far has timed out runs on the caller's thread: it is never
\* in the pending-request map and no parse message is posted for it.
C10_FallbackToMainThread ==
  /\ \A w \in WorkerIds : handshake[w] = "timedout" => initResult[w] = "returned"
  /\ \A w \in WorkerIds : initResult[w] # "rejected"
  /\ \A id \in RequestIds :
       fallback[id]
         => /\ path[id] = "main"
            /\ id \notin pendingRequests
            /\ ~received[id]
            /\ \A w \in WorkerIds :
                 \A i \in 1..Len(inbox[w]) :
                   inbox[w][i].type = "parse" => inbox[w][i].id # id
            /\ promise[id] \in {"resolved", "rejected"} \/ mainHung

\* C10 witness: after a handshake timeout, with the late ready message
\* already delivered, a parse ran on the caller's thread.
C10_Witness ==
  \E id \in RequestIds, w \in WorkerIds :
    /\ workerSupported
    /\ fallback[id]
    /\ handshake[w] = "timedout"
    /\ workerReady
    /\ promise[id] = "resolved"

\* The request has terminated: its result or error was delivered, or it was
\* cancelled.
Terminated(id) ==
  promise[id] \in {"resolved", "rejected"} \/ ctl[id].isCancelled

\* C11: a cancel, pause or resume of the controller of a terminated request
\* is a no-op: the call leaves the pending-request map alone, and the worker
\* that takes the message of such a call changes neither its cancelled nor
\* its paused flag, and no promise and no delivered progress changes.
C11_InertController ==
  [][/\ \A id \in RequestIds :
          (Terminated(id) /\ ctl'[id] # ctl[id])
            => pendingRequests' = pendingRequests
     /\ \A w \in WorkerIds :
          (/\ inbox[w] # <<>>
           /\ inbox'[w] = Tail(inbox[w])
           /\ Head(inbox[w]).type \in {"cancel", "pause", "resume"}
           /\ Terminated(Head(inbox[w]).id))
            => /\ isCancelled'[w] = isCancelled[w]
               /\ isPaused'[w] = isPaused[w]
               /\ promise' = promise
               /\ delivered' = delivered]_vars

\* C21: parse delegates to the worker exactly when the worker is ready, a
\* worker instance is held and options.useWorker is not false; in the worker
\* the streaming engine runs exactly when the type is csv, the input exceeds
\* 1 MiB and options.streaming is not false; otherwise the accelerated path
\* runs exactly when the accelerated module is loaded and the useWasm of the
\* request's config is not false; otherwise the plain engine runs in the
\* worker.
C21_EngineSelection ==
  call.fn = "select"
    => LET in == call.in
           delegated ==
             in.workerReady /\ in.hasWorker /\ in.useWorker # "false"
           streams ==
             in.csv /\ in.total > 1024 * 1024 /\ in.streaming # "false"
           accelerated == in.wasmLoaded /\ in.requestUseWasm # "false"
       IN /\ call.out # "main" <=> delegated
          /\ delegated
               => /\ call.out = "streaming" <=> streams
                  /\ call.out = "wasm" <=> ~streams /\ accelerated
                  /\ call.out = "plain" <=> ~streams /\ ~accelerated

\* C21 witness: a delegated csv request of exactly 1 MiB, which is not
\* streamed, took the accelerated path.
C21_Witness ==
  /\ call.fn = "select"
  /\ call.in.csv /\ call.in.streaming # "false"
  /\ call.in.total = 1024 * 1024
  /\ call.out = "wasm"

\* C22: a parse that ran on the caller's thread and resolved has delivered
\* exactly two progress events, a start event (phase parsing, 0 bytes, 0%)
\* and then a completion event (phase complete, 100%), and nothing is
\* delivered for it after it has resolved; one that was rejected has
\* delivered no completion event.
C22_MainThreadEvents ==
  /\ [](\A id \in RequestIds :
         path[id] = "main"
           => /\ promise[id] = "resolved"
                   => /\ Len(delivered[id]) = 2
                      /\ delivered[id][1].phase = "parsing"
                      /\ delivered[id][1].bytes = 0
                      /\ delivered[id][1].pct = 0
                      /\ delivered[id][2].phase = "complete"
                      /\ delivered[id][2].pct = 100
              /\ promise[id] = "rejected"
                   => \A i \in 1..Len(delivered[id]) :
                        delivered[id][i].phase # "complete")
  /\ [][\A id \in RequestIds :
          path[id] = "main" /\ promise[id] \in {"resolved", "rejected"}
            => /\ delivered'[id] = delivered[id]
               /\ promise'[id] = promise[id]]_vars

\* C22 witness: one parse on the caller's thread resolved with its two
\* events, in a service whose worker exists.
C22_Witness ==
  \E id \in RequestIds :
    /\ path[id] = "main"
    /\ promise[id] = "resolved"
    /\ Len(delivered[id]) = 2
    /\ \E w \in WorkerIds : alive[w] = "running"

\* C26: every promise returned by parse eventually settles: it resolves or
\* it is rejected.
C26_PromiseSettles ==
  \A id \in RequestIds :
    promise[id] = "pending" ~> promise[id] \in {"resolved", "rejected"}

\* C28: workerReady is true only while a worker instance is held.
C28_ReadyOnlyWithWorker == workerReady => workerInstance # NoWorker

\* A step that is a call on the controller of request id: its flags change,
\* or a cancel, pause or resume message for it is posted to a worker.
ControllerCalled(id) ==
  \/ ctl'[id] # ctl[id]
  \/ \E w \in WorkerIds :
       /\ Len(inbox'[w]) = Len(inbox[w]) + 1
       /\ inbox'[w][Len(inbox'[w])].type \in {"cancel", "pause", "resume"}
       /\ inbox'[w][Len(inbox'[w])].id = id

\* C30: the controller of a request is in the caller's hands only once the
\* request's promise has resolved: every cancel, pause or resume call
\* happens when the promise is resolved and the request is not in the
\* pending-request map, and no call is ever made on the controller of a
\* rejected request.
C30_ControllerAfterResolve ==
  /\ [][\A id \in RequestIds :
          ControllerCalled(id)
            => promise[id] = "resolved" /\ id \notin pendingRequests]_vars
  /\ [](\A id \in RequestIds :
         promise[id] = "rejected"
           => /\ ~ctl[id].isCancelled /\ ~ctl[id].isPaused /\ ~cancelSent[id]
              /\ \A w \in WorkerIds :
                   \A i \in 1..Len(inbox[w]) :
                     inbox[w][i].type \in {"cancel", "pause", "resume"}
                       => inbox[w][i].id # id)

\* C30 witness: a controller call was made for a request of the worker
\* path, its message waits in a worker's queue, and another request is
\* pending.
C30_Witness ==
  \E id \in RequestIds, w \in WorkerIds :
    /\ path[id] = "worker"
    /\ promise[id] = "resolved"
    /\ \E i \in 1..Len(inbox[w]) :
         inbox[w][i].type \in {"cancel", "pause", "resume"} /\ inbox[w][i].id = id
    /\ pendingRequests \ {id} # {}

\* ---------------------------------------------------------------- engines
\* Bounds of the engine inputs.
MaxCsvRows == 2       \* rows Papa returns
MaxBlocks == 2        \* blocks of a FIN message
MaxMsgFields == 2     \* fields of block 4
MaxSubfields == 1     \* subfields of one block-4 field
MaxKids == 2          \* child elements of one XML element

\* All sequences over S of length lo..hi.
SeqsOf(S, lo, hi) == UNION {[1..n -> S] : n \in lo..hi}

\* A ParsedRecord, as far as its index, isValid and errors go.  errors is
\* <<>> where the code leaves the property undefined.
Rec(index, isValid, errors) ==
  [index |-> index, isValid |-> isValid, errors |-> errors]

CountValid(records) ==
  Cardinality({i \in 1..Len(records) : records[i].isValid})

\* metadata as parseCSV, parseFixedWidth, parseFIN and parseISO20022 build
\* it: records.length and the two filter counts (csvParser.ts:59-65).
CountedMetadata(records) ==
  [totalRecords |-> Len(records),
   validRecords |-> CountValid(records),
   invalidRecords |-> Len(records) - CountValid(records)]

\* metadata as parseWithPattern and parseGeneric build it
\* (sampleData.ts:627-633, 714-720).
AllValidMetadata(records) ==
  [totalRecords |-> Len(records),
   validRecords |-> Len(records),
   invalidRecords |-> 0]

\* What a call gives: the dataset it returned (returned = FALSE: the call
\* never returns) and the caller's config object as it is after the call.
Result(records, metadata, outConfig, callerConfig) ==
  [returned |-> TRUE, records |-> records, metadata |-> metadata,
   outConfig |-> outConfig, callerConfig |-> callerConfig]

NoReturn(callerConfig) ==
  [returned |-> FALSE, records |-> <<>>, metadata |-> AllValidMetadata(<<>>),
   outConfig |-> callerConfig, callerConfig |-> callerConfig]

\* createErrorResult of the ISO20022 engine and of the custom engine:
\* iso20022Parser.ts:271-292, sampleData.ts:820-841.
createErrorResult(config, error) ==
  Result(<<Rec(0, FALSE, <<error>>)>>,
         [totalRecords |-> 0, validRecords |-> 0, invalidRecords |-> 1],
         config, config)

\* config.fieldDefinitions: undefined, or an array.
Undefined == [defined |-> FALSE, items |-> <<>>]
Array(items) == [defined |-> TRUE, items |-> items]
Config(fieldDefinitions) == [fieldDefinitions |-> fieldDefinitions]
PlainConfigs == {Config(Undefined), Config(Array(<<>>))}

\* ---- delimited engine: csvParser.ts:4-67.
\* Papa.parse gives n rows and a list of errors, each with the row it is
\* about (a row of the data, or one past it).
CsvInputs ==
  [n : 0..MaxCsvRows, errRows : SUBSET (0..MaxCsvRows), config : PlainConfigs]

\* A row is invalid as soon as Papa reports any error.
CsvRecordAnyError(index, errRows) ==
  Rec(index,
      errRows = {},
      IF index \in errRows THEN <<"papa error">> ELSE <<>>)

\* The record of row `index`: csvParser.ts:36-49.
CsvRecord(index, errRows) ==
  Rec(index,
      ~(\E r \in errRows : r = index),
      IF index \in errRows THEN <<"papa error">> ELSE <<>>)

parseCSV(in) ==
  LET records == [i \in 1..in.n |-> CsvRecord(i - 1, in.errRows)]
  IN Result(records, CountedMetadata(records), in.config, in.config)

\* ---- FIN engine: finParser.ts:4-94.
\* parseFINBlocks gives the blocks; when one of them is block 4,
\* parseBlock4Fields gives its fields, each with its subfields.
FinInputs ==
  {[blocks |-> b, msgFields |-> f, config |-> c] :
     b \in 0..MaxBlocks,
     f \in SeqsOf(0..MaxSubfields, 0, MaxMsgFields),
     c \in PlainConfigs}

RECURSIVE FinSubfields(_, _)
\* finParser.ts:50-65: one record per subfield, index records.length.
FinSubfields(records, k) ==
  IF k = 0 THEN records
  ELSE FinSubfields(Append(records, Rec(Len(records), TRUE, <<>>)), k - 1)

RECURSIVE FinMessageFields(_, _, _)
\* finParser.ts:37-76.
FinMessageFields(records, msgFields, i) ==
  IF i > Len(msgFields) THEN records
  ELSE LET withSubs == FinSubfields(records, msgFields[i])
       IN FinMessageFields(Append(withSubs, Rec(Len(withSubs), TRUE, <<>>)),
                           msgFields, i + 1)

parseFIN(in) ==
  LET blockRecords == [i \in 1..in.blocks |-> Rec(i - 1, TRUE, <<>>)]
      records == IF in.blocks > 0
                   THEN FinMessageFields(blockRecords, in.msgFields, 1)
                   ELSE blockRecords
  IN Result(records, CountedMetadata(records), in.config, in.config)

\* ---- ISO20022 engine: iso20022Parser.ts:4-197.
\* An element as flattenXML sees it: own = it has an attribute, a text or a
\* primitive child (fields.length > 0), kids = its object children and the
\* items of its array children, in document order.
Element(own, kids) == [own |-> own, kids |-> kids]
Leaves == {Element(TRUE, <<>>)}
Shallow ==
  Leaves \cup {Element(o, k) : o \in BOOLEAN, k \in SeqsOf(Leaves, 1, MaxKids)}
Trees ==
  Leaves \cup {Element(o, k) : o \in BOOLEAN, k \in SeqsOf(Shallow, 1, MaxKids)}

RECURSIVE flattenXML(_, _)
RECURSIVE FlattenEntries(_, _, _)
\* The entries.forEach of flattenXML, from child k on:
\* iso20022Parser.ts:160-171.
FlattenEntries(kids, k, currentIndex) ==
  IF k > Len(kids) THEN <<>>
  ELSE LET childRecords == flattenXML(kids[k], currentIndex + 1)
       IN childRecords
            \o FlattenEntries(kids, k + 1, currentIndex + Len(childRecords))

\* flattenXML: iso20022Parser.ts:122-197.
flattenXML(obj, startIndex) ==
  (IF obj.own THEN <<Rec(startIndex, TRUE, <<>>)>> ELSE <<>>)
    \o FlattenEntries(obj.kids, 1, startIndex)

\* parser.parse throws, gives a document without a root, a root that is a
\* primitive, or a root element.
IsoInputs ==
  {[xml |-> x, root |-> r, config |-> c] :
     x \in {"throws", "no root", "primitive"},
     r \in Leaves, c \in PlainConfigs}
  \cup {[xml |-> "element", root |-> r, config |-> c] :
          r \in Trees, c \in PlainConfigs}

parseISO20022(in) ==
  CASE in.xml = "throws" ->
         createErrorResult(in.config, "XML Parse Error")
    [] in.xml = "no root" ->
         createErrorResult(in.config, "No root element found")
    [] OTHER ->
         LET records ==
               <<Rec(0, TRUE, <<>>)>>
                 \o (IF in.xml = "element" THEN flattenXML(in.root, 1)
                     ELSE <<>>)
         IN Result(records, CountedMetadata(records), in.config, in.config)

\* ---- fixed-column engine: fixedWidthParser.ts:3-142.
MaxTypeLines == 3     \* lines of a text whose records are classified
MaxLineLen == 2       \* characters of one line
MaxLines == 2         \* lines of the data
MaxDefs == 2          \* field definitions of a config
SampleLines == 10     \* autoDetectFields looks at the first 10 lines

\* A string is a sequence of characters.
Chars == {" ", "0", "1", "y"}
Digits == {"0", "1"}
Strings == SeqsOf(Chars, 0, MaxLineLen)

Min(a, b) == IF a < b THEN a ELSE b

RECURSIVE TrimStart(_)
TrimStart(str) ==
  IF str # <<>> /\ Head(str) = " " THEN TrimStart(Tail(str)) ELSE str

RECURSIVE TrimEnd(_)
TrimEnd(str) ==
  IF str # <<>> /\ str[Len(str)] = " "
    THEN TrimEnd(SubSeq(str, 1, Len(str) - 1))
    ELSE str

\* String.prototype.trim.
Trim(str) == TrimEnd(TrimStart(str))

\* line.substring(start, end) for 0 <= start <= end.
Substring(line, start, end) == SubSeq(line, start + 1, Min(end, Len(line)))

\* The values of a ParsedField.
Null == [kind |-> "null", num |-> 0, bool |-> FALSE, str |-> <<>>]
Num(n) == [kind |-> "number", num |-> n, bool |-> FALSE, str |-> <<>>]
Bool(b) == [kind |-> "boolean", num |-> 0, bool |-> b, str |-> <<>>]
Str(str) == [kind |-> "string", num |-> 0, bool |-> FALSE, str |-> str]

\* !value of JavaScript.
Falsy(v) ==
  \/ v.kind = "null"
  \/ v.kind = "number" /\ v.num = 0
  \/ v.kind = "boolean" /\ ~v.bool
  \/ v.kind = "string" /\ v.str = <<>>

RECURSIVE LeadingDigits(_, _)
\* The number the leading digits of str spell, after acc.
LeadingDigits(str, acc) ==
  IF str # <<>> /\ Head(str) \in Digits
    THEN LeadingDigits(Tail(str),
                       10 * acc + (IF Head(str) = "1" THEN 1 ELSE 0))
    ELSE acc

\* parseFloat of a trimmed string: NaN (here Null, as line 71 turns NaN into
\* null) unless it starts with a digit.
ParseFloat(str) ==
  IF str # <<>> /\ Head(str) \in Digits THEN Num(LeadingDigits(str, 0))
  ELSE Null

\* parseFieldValue: fixedWidthParser.ts:65-79.
parseFieldValue(value, def) ==
  IF value = <<>> THEN Null
  ELSE CASE def.type = "number" -> ParseFloat(value)
         [] def.type = "boolean" -> Bool(value = <<"1">> \/ value = <<"y">>)
         [] OTHER -> Str(value)

FieldTypes == {"string", "number", "date", "boolean"}

FieldDef(start, length, type, required) ==
  [start |-> start, length |-> length, type |-> type, required |-> required]

\* spaceCount[i] of autoDetectFields: fixedWidthParser.ts:108-116.
SpaceCount(sampleLines, i) ==
  Cardinality({k \in 1..Len(sampleLines) :
                 i < Len(sampleLines[k]) /\ sampleLines[k][i + 1] = " "})

RECURSIVE MaxLength(_)
MaxLength(lines) ==
  IF lines = <<>> THEN 0
  ELSE LET rest == MaxLength(Tail(lines))
       IN IF Len(Head(lines)) > rest THEN Len(Head(lines)) ELSE rest

RECURSIVE Boundaries(_, _, _, _, _)
\* The boundary scan, from position i on: fixedWidthParser.ts:119-129.
\* spaceCount[i] >= sampleLines.length * 0.7 is 10 * spaceCount[i] >= 7 * n.
Boundaries(sampleLines, maxLength, i, inSpace, boundaries) ==
  IF i >= maxLength THEN Append(boundaries, maxLength)
  ELSE LET dense == 10 * SpaceCount(sampleLines, i) >= 7 * Len(sampleLines)
       IN IF dense /\ ~inSpace
            THEN Boundaries(sampleLines, maxLength, i + 1, TRUE, boundaries)
          ELSE IF ~dense /\ inSpace
            THEN Boundaries(sampleLines, maxLength, i + 1, FALSE,
                            Append(boundaries, i))
          ELSE Boundaries(sampleLines, maxLength, i + 1, inSpace, boundaries)

\* The field definitions between the boundaries: fixedWidthParser.ts:132-141.
FieldsBetween(b) ==
  [k \in 1..(Len(b) - 1) |-> FieldDef(b[k], b[k + 1] - b[k], "string", FALSE)]

\* The first 10 lines: fixedWidthParser.ts:103.
FirstLines(lines) == SubSeq(lines, 1, Min(SampleLines, Len(lines)))

\* autoDetectFields: fixedWidthParser.ts:99-142.
autoDetectFields(lines) ==
  IF lines = <<>> THEN <<>>
  ELSE FieldsBetween(Boundaries(FirstLines(lines), MaxLength(FirstLines(lines)),
                                0, FALSE, <<0>>))

\* The value of one field of one line: fixedWidthParser.ts:16-17.
FieldValue(line, def) ==
  parseFieldValue(Trim(Substring(line, def.start, def.start + def.length)), def)

\* The errors of one line: fixedWidthParser.ts:29-34.
RequiredErrors(line, fieldDefs) ==
  LET missing(k) == fieldDefs[k].required /\ Falsy(FieldValue(line, fieldDefs[k]))
      picked == SelectSeq([k \in 1..Len(fieldDefs) |-> k], missing)
  IN [j \in 1..Len(picked) |-> <<"Required field is empty", picked[j]>>]

\* The record of one line: fixedWidthParser.ts:14-45.
FixedRecord(line, index, fieldDefs) ==
  LET errors == RequiredErrors(line, fieldDefs)
  IN Rec(index, Len(errors) = 0, errors)

NonBlank(line) == Len(Trim(line)) > 0

\* The records and the result, once lines and fieldDefs are known:
\* fixedWidthParser.ts:14-63.  fieldDefs is the caller's array whenever the
\* caller gave one (line 6), so the push of line 11 writes into the caller's
\* config.
FixedResult(in, records, fieldDefs) ==
  Result(records, CountedMetadata(records),
         Config(Array(fieldDefs)),
         IF in.config.fieldDefinitions.defined
           THEN Config(Array(fieldDefs))
           ELSE in.config)

FixedRecords(lines, fieldDefs) ==
  [i \in 1..Len(lines) |-> FixedRecord(lines[i], i - 1, fieldDefs)]

FixedWithDefs(in, lines, fieldDefs) ==
  FixedResult(in, FixedRecords(lines, fieldDefs), fieldDefs)

\* The field definitions in use: fixedWidthParser.ts:6-12.
FieldDefsOf(in, lines) ==
  IF Len(in.config.fieldDefinitions.items) = 0
    THEN autoDetectFields(lines)
    ELSE in.config.fieldDefinitions.items

FixedWithLines(in, lines) == FixedWithDefs(in, lines, FieldDefsOf(in, lines))

\* parseFixedWidth: fixedWidthParser.ts:3-63.
parseFixedWidth(in) == FixedWithLines(in, SelectSeq(in.data, NonBlank))

FieldDefs ==
  {FieldDef(st0, len, t, r) :
     st0 \in 0..(MaxLineLen - 1), len \in 1..MaxLineLen,
     t \in FieldTypes, r \in BOOLEAN}

\* One line against up to MaxDefs definitions.
FixedLineInputs ==
  {[data |-> <<l>>, config |-> Config(Array(d))] :
     l \in Strings, d \in SeqsOf(FieldDefs, 1, MaxDefs)}

\* Up to MaxLines lines against no definitions or one.
FixedDataInputs ==
  {[data |-> d, config |-> c] :
     d \in SeqsOf(Strings, 1, MaxLines),
     c \in PlainConfigs \cup {Config(Array(<<f>>)) : f \in FieldDefs}}

\* ---- custom engine: sampleData.ts:526-841.
MaxMatches == 2       \* matches of the custom pattern

\* What a configured routine can hand back as a dataset: anything with a
\* records array and a metadata object (isValidParsedData,
\* sampleData.ts:809-818).
RoutineDatasets ==
  {[records |-> r, metadata |-> m] :
     r \in {<<>>, <<Rec(0, TRUE, <<>>)>>, <<Rec(0, FALSE, <<"bad row">>)>>},
     m \in {CountedMetadata(<<>>), CountedMetadata(<<Rec(0, TRUE, <<>>)>>)}}

\* config.parseFunction: not configured, or how the call of line 538 ends
\* (returns a dataset, returns something else, throws).  config.customPattern:
\* not configured, or what the loop of parseWithPattern meets (the RegExp
\* constructor throws, `matches` non-empty matches and then null, or an
\* empty match after `matches` matches).  lines: data.split(/\r?\n/), TRUE
\* for a line whose trim is empty.
CustomInputs ==
  {[routine |-> ro, given |-> g, pattern |-> pa, matches |-> n, lines |-> l,
    config |-> c] :
     ro \in {"none", "dataset", "invalid", "throws"},
     g \in RoutineDatasets,
     pa \in {"none", "bad regex", "matches", "empty match"},
     n \in 0..MaxMatches,
     l \in SeqsOf(BOOLEAN, 1, MaxLines),
     c \in PlainConfigs}

\* parseWithPattern: sampleData.ts:566-635.  exec with the g flag does not
\* move lastIndex past an empty match, so the while loop meets the same
\* match again and never ends.
parseWithPattern(in) ==
  CASE in.pattern = "bad regex" -> createErrorResult(in.config, "Pattern error")
    [] in.pattern = "empty match" -> NoReturn(in.config)
    [] OTHER ->
         LET records == [i \in 1..in.matches |-> Rec(i - 1, TRUE, <<>>)]
         IN Result(records, AllValidMetadata(records), in.config, in.config)

\* parseGeneric: sampleData.ts:637-722.  index is the position of the line
\* in data.split, blank lines are skipped.
parseGeneric(in) ==
  LET kept == SelectSeq([i \in 1..Len(in.lines) |-> i],
                        LAMBDA i : ~in.lines[i])
      records == [j \in 1..Len(kept) |-> Rec(kept[j] - 1, TRUE, <<>>)]
  IN Result(records, AllValidMetadata(records), in.config, in.config)

\* The tiers after the routine tier: sampleData.ts:557-563.
PatternOrGeneric(in) ==
  IF in.pattern # "none" THEN parseWithPattern(in) ELSE parseGeneric(in)

\* The routine returned something isValidParsedData rejects: the if of line
\* 539 is skipped, the try block ends and control reaches line 557.
RoutineInvalid(in) == PatternOrGeneric(in)

\* parseCustom: sampleData.ts:526-564.
parseCustom(in) ==
  CASE in.routine = "dataset" ->
         Result(in.given.records, in.given.metadata, in.config, in.config)
    [] in.routine = "throws" ->
         createErrorResult(in.config, "Custom parser error")
    [] in.routine = "invalid" -> RoutineInvalid(in)
    [] OTHER -> PatternOrGeneric(in)

\* ---- records of the streaming delimited engine: part_006:59-99, 134-148.
\* One chunk: its rows and the rows its results.errors name.
StreamChunks ==
  SeqsOf([rows : 0..MaxCsvRows, errRows : SUBSET (0..MaxCsvRows)], 0, MaxChunks)

RECURSIVE StreamRows(_, _, _)
\* The for loop of one chunk: part_006:61-99.
StreamRows(records, chunk, left) ==
  IF left = 0 THEN records
  ELSE LET recordIndex == Len(records)
           hasErrors == \E r \in chunk.errRows : r = recordIndex
       IN StreamRows(Append(records,
                            Rec(recordIndex, ~hasErrors,
                                IF hasErrors THEN <<"papa error">> ELSE <<>>)),
                     chunk, left - 1)

RECURSIVE StreamRecords(_, _, _)
StreamRecords(records, chunks, k) ==
  IF k > Len(chunks) THEN records
  ELSE StreamRecords(StreamRows(records, chunks[k], chunks[k].rows),
                     chunks, k + 1)

\* The dataset of the complete callback: validCount and invalidCount are
\* counted row by row (part_006:92-96, 134-148).
StreamingDataset(in) ==
  LET records == StreamRecords(<<>>, in.chunks, 1)
  IN Result(records, CountedMetadata(records), in.config, in.config)

StreamingInputs == [chunks : StreamChunks, config : PlainConfigs]

\* ---- parse: the dispatcher of parsers/index.ts
\* (src/src/parsers/__tests__/finParser.test.ts:123-139).
ParserTypes == {"csv", "fixed-width", "fin", "iso20022", "custom"}

\* The inputs of each engine, family by family.
InputsOf(type) ==
  CASE type = "fixed-width" -> <<FixedLineInputs, FixedDataInputs>>
    [] type = "fin" -> <<FinInputs>>
    [] type = "iso20022" -> <<IsoInputs>>
    [] type = "custom" -> <<CustomInputs>>
    [] OTHER -> <<CsvInputs>>

parse(type, in) ==
  CASE type = "csv" -> parseCSV(in)
    [] type = "fixed-width" -> parseFixedWidth(in)
    [] type = "fin" -> parseFIN(in)
    [] type = "iso20022" -> parseISO20022(in)
    [] type = "custom" -> parseCustom(in)
    [] OTHER -> parseCSV(in)

\* One call parse(data, config).
ParseCall ==
  /\ call = NoCall
  /\ \E type \in ParserTypes \cup {"unknown"} :
       \E k \in 1..Len(InputsOf(type)) :
         \E in \in InputsOf(type)[k] :
           call' = Call("parse", type, in, parse(type, in))
  /\ UNCHANGED <<serviceVars, workerVars, streamVars>>

\* One run of parseCSVStreaming to its complete callback.
StreamingCall ==
  /\ call = NoCall
  /\ \E in \in StreamingInputs :
       call' = Call("parseCSVStreaming", "csv", in, StreamingDataset(in))
  /\ UNCHANGED <<serviceVars, workerVars, streamVars>>

\* How the lines given to determineRecordType start.  The patterns with the
\* i flag match either case; /^H /, /^T / and /^D / match upper case only.
HeaderStarts == {"HDR", "hdr", "HEADER", "H "}
FooterStarts == {"TRL", "trl", "TRAILER", "T ", "EOF"}
TransactionStarts == {"TXN", "txn", "DTL", "D "}
OtherStarts == {"h ", "t ", "d ", "001"}
LineStarts == HeaderStarts \cup FooterStarts \cup TransactionStarts \cup OtherStarts

\* determineRecordType(line, index, total): fixedWidthParser.ts:81-97.
determineRecordType(line, index, total) ==
  IF index = 0 \/ line \in HeaderStarts THEN "header"
  ELSE IF index = total - 1 \/ line \in FooterStarts THEN "footer"
  ELSE IF line \in TransactionStarts THEN "transaction"
  ELSE "data"

\* One line of a fixed-column text classified: fixedWidthParser.ts:41.
RecordTypeCall ==
  /\ call = NoCall
  /\ \E total \in 1..MaxTypeLines :
       \E index \in 0..(total - 1), line \in LineStarts :
         call' = Call("determineRecordType", "fixed-width",
                      [line |-> line, index |-> index, total |-> total],
                      determineRecordType(line, index, total))
  /\ UNCHANGED <<serviceVars, workerVars, streamVars>>

\* Field values given to the type inference: absent (null or undefined), or
\* a string.  What the JavaScript primitives make of each:
\*   toLowerCase()            LowerCase
\*   !isNaN(Number(s))        NumericValues (Number trims white space, and
\*                            gives 0 for a blank string)
\*   s.trim() !== ''          outside BlankValues
\*   the three date patterns  DateValues
Absent == "<absent>"
FieldValues ==
  {Absent, "", " ", "true", "TRUE", "False", "yes", "No", "on", "off", "1",
   "0", "42", " 7 ", "1e3", "-0.5", "2024-01-15", "15/01/2024", "15-01-2024",
   "2024-1-5", "abc"}

LowerCase(s) ==
  CASE s = "TRUE" -> "true"
    [] s = "False" -> "false"
    [] s = "No" -> "no"
    [] OTHER -> s

NumericValues == {"", " ", "1", "0", "42", " 7 ", "1e3", "-0.5"}
BlankValues == {"", " "}
DateValues == {"2024-01-15", "15/01/2024", "15-01-2024"}

\* inferType: csvParser.ts:69-94.
inferType(value) ==
  IF value = Absent \/ value = "" THEN "null"
  ELSE IF LowerCase(value) = "true" \/ LowerCase(value) = "false"
    THEN "boolean"
  ELSE IF value \in NumericValues /\ value \notin BlankValues THEN "number"
  ELSE IF value \in DateValues THEN "date"
  ELSE "string"

\* TRUE_VALUES, FALSE_VALUES: part_006:158-159.
TRUE_VALUES == {"true", "yes", "1", "on"}
FALSE_VALUES == {"false", "no", "0", "off"}

\* inferTypeOptimized: part_006:162-184.  strValue.length > 0 holds of every
\* value that passed the first test.
inferTypeOptimized(value) ==
  IF value = Absent \/ value = "" THEN "null"
  ELSE IF LowerCase(value) \in TRUE_VALUES \/ LowerCase(value) \in FALSE_VALUES
    THEN "boolean"
  ELSE IF value # "" /\ value \in NumericValues THEN "number"
  ELSE IF value \in DateValues THEN "date"
  ELSE "string"

\* The type of one field value as each delimited engine infers it:
\* csvParser.ts:31 and part_006:71.
InferCall ==
  /\ call = NoCall
  /\ \E value \in FieldValues :
       call' = Call("inferType", "csv", value,
                    [plain |-> inferType(value),
                     streaming |-> inferTypeOptimized(value)])
  /\ UNCHANGED <<serviceVars, workerVars, streamVars>>

\* ------------------------------------- the match loop of parseWithPattern
\* sampleData.ts:571-575: pattern = new RegExp(customPattern, 'gm') and
\* while ((match = pattern.exec(data)) !== null).  A compiled pattern and a
\* text are, for exec, the length of the text and, for every position of it,
\* the length of the match that starts there (NoMatch: none does).
MaxDataLen == 2        \* characters of the text
MaxIterations == 3     \* iterations counted (the count saturates)
NoMatch == -1

PatternInputs ==
  UNION {{[length |-> n, at |-> f] :
            f \in {g \in [0..n -> NoMatch..n] :
                     \A i \in 0..n : g[i] <= n - i}} :
         n \in 0..MaxDataLen}

\* RegExp.prototype.exec of a pattern with the g flag: the search starts at
\* lastIndex; a match sets lastIndex to its end, which for an empty match is
\* where the search started; no match sets lastIndex to 0 and returns null.
Exec(in, lastIndex) ==
  LET found == {i \in lastIndex..in.length : in.at[i] # NoMatch}
  IN IF found = {} THEN [match |-> FALSE, lastIndex |-> 0]
     ELSE LET i == CHOOSE j \in found : \A k \in found : j <= k
          IN [match |-> TRUE, lastIndex |-> i + in.at[i]]

\* pattern.exec(data) in the loop condition: sampleData.ts:575.
PatternExec(in, lastIndex) == Exec(in, lastIndex)

\* The loop is entered: sampleData.ts:571-573.
PatternStart ==
  /\ call = NoCall
  /\ \E in \in PatternInputs :
       call' = Call("parseWithPattern", "custom", in,
                    [lastIndex |-> 0, index |-> 0, odd |-> FALSE,
                     done |-> FALSE])
  /\ UNCHANGED <<serviceVars, workerVars, streamVars>>

\* One evaluation of the loop condition and, on a match, one run of the
\* body (a record is pushed, index++): sampleData.ts:575-612.  odd: the
\* number of records pushed so far is odd.
PatternStep ==
  /\ call.fn = "parseWithPattern"
  /\ ~call.out.done
  /\ LET r == PatternExec(call.in, call.out.lastIndex)
     IN call' =
          [call EXCEPT !.out =
             IF r.match
               THEN [lastIndex |-> r.lastIndex,
                     index |-> Min(call.out.index + 1, MaxIterations),
                     odd |-> ~call.out.odd, done |-> FALSE]
               ELSE [lastIndex |-> r.lastIndex, index |-> call.out.index,
                     odd |-> call.out.odd, done |-> TRUE]]
  /\ UNCHANGED <<serviceVars, workerVars, streamVars>>

NextPattern == PatternStart \/ PatternStep

\* ------------------------------------------------------ encoding detection
\* part_007.  A buffer as detectEncoding reads it: its length, the byte
\* order mark it starts with, the null bytes at even and at odd offsets
\* within the sample, and, of isValidUtf8 and the other counts of
\* analyzeBytes, what the later tests use.
SampleBytes == 65536           \* part_007:129
MaxBufferSamples == 2          \* buffer lengths in multiples of the sample

BufferLengths ==
  {0, 1, 10, 20, SampleBytes - 1, SampleBytes + 1}
  \cup {k * SampleBytes : k \in 1..MaxBufferSamples}

\* const sampleSize = Math.min(bytes.length, 65536): part_007:129.
SampleSize(length) == Min(length, SampleBytes)

\* Null counts around a tenth of the sample.
NullCounts(length) ==
  LET size == SampleSize(length)
  IN {n \in {0, size \div 20, size \div 10, size \div 10 + 1, size \div 4,
             size \div 2} : 2 * n <= size}

Buffers ==
  {b \in [length : BufferLengths,
          bom : {"none", "utf-8", "utf-16le", "utf-16be"},
          evenNulls : UNION {NullCounts(l) : l \in BufferLengths},
          oddNulls : UNION {NullCounts(l) : l \in BufferLengths},
          validUtf8 : BOOLEAN, highBytes : BOOLEAN, moreWindows1252 : BOOLEAN] :
     /\ b.evenNulls \in NullCounts(b.length)
     /\ b.oddNulls \in NullCounts(b.length)
     /\ b.bom = "utf-8" => b.length >= 3
     /\ b.bom \in {"utf-16le", "utf-16be"} => b.length >= 2
     /\ ~b.highBytes => b.validUtf8 /\ ~b.moreWindows1252 /\ b.bom = "none"}

\* The counts of null bytes analyzeBytes returns: part_007:107-150.
analyzeBytes(b) ==
  [nullBytes |-> b.evenNulls + b.oddNulls, evenNulls |-> b.evenNulls,
   oddNulls |-> b.oddNulls]

EncodingInfo(encoding, confidence, hasBOM) ==
  [encoding |-> encoding, confidence |-> confidence, hasBOM |-> hasBOM]

\* stats.nullBytes > bytes.length * 0.1: part_007:31.
ManyNulls(b, stats) == 10 * stats.nullBytes > b.length

\* detectEncoding: part_007:20-56.  confidence in hundredths.
detectEncoding(b) ==
  LET stats == analyzeBytes(b)
  IN IF b.bom # "none" THEN EncodingInfo(b.bom, 100, TRUE)
     ELSE IF ManyNulls(b, stats)
       THEN IF stats.oddNulls > stats.evenNulls
              THEN EncodingInfo("utf-16le", 80, FALSE)
              ELSE EncodingInfo("utf-16be", 80, FALSE)
     ELSE IF b.validUtf8
       THEN IF ~b.highBytes
              THEN EncodingInfo("ascii", 100, FALSE)
              ELSE EncodingInfo("utf-8", 95, FALSE)
     ELSE IF b.moreWindows1252 THEN EncodingInfo("windows-1252", 70, FALSE)
     ELSE EncodingInfo("iso-8859-1", 60, FALSE)

\* detectEncoding(new Uint8Array(request.data)): part_004:84.
EncodingCall ==
  /\ call = NoCall
  /\ \E b \in Buffers :
       call' = Call("detectEncoding", "none", b, detectEncoding(b))
  /\ UNCHANGED <<serviceVars, workerVars, streamVars>>

EngineStart == ServiceInit /\ workerSupported /\ StreamIdle /\ call = NoCall

NextEngine ==
  ParseCall \/ StreamingCall \/ RecordTypeCall \/ InferCall \/ EncodingCall

SpecEngine == EngineStart /\ [][NextEngine]_vars

\* The match loop alone; it runs on as long as its condition holds.
SpecPattern == EngineStart /\ [][NextPattern]_vars /\ WF_vars(PatternStep)

\* A call has returned a dataset.
Returned == call # NoCall /\ call.fn \in {"parse", "parseCSVStreaming"}
              /\ call.out.returned

\* ------------------------------------------------- properties of engines
\* C12: every dataset parse returns has metadata.totalRecords =
\* records.length and validRecords + invalidRecords = totalRecords.
C12_MetadataCounts ==
  (Returned /\ call.fn = "parse")
    => /\ call.out.metadata.totalRecords = Len(call.out.records)
       /\ call.out.metadata.validRecords + call.out.metadata.invalidRecords
            = call.out.metadata.totalRecords

\* The call met an engine-fatal error: a custom routine that throws, a
\* custom pattern that does not compile, XML that does not parse.
FatalError ==
  /\ call # NoCall
  /\ call.fn = "parse"
  /\ \/ /\ call.type = "custom"
        /\ \/ call.in.routine = "throws"
           \/ /\ call.in.routine \in {"none", "invalid"}
              /\ call.in.pattern = "bad regex"
     \/ call.type = "iso20022" /\ call.in.xml = "throws"

\* C13: an engine-fatal error is returned as a dataset with exactly one
\* record, invalid and with a non-empty error list, and with
\* totalRecords = 1, invalidRecords = 1, validRecords = 0.
C13_FatalErrorDataset ==
  FatalError
    => /\ call.out.returned
       /\ Len(call.out.records) = 1
       /\ ~call.out.records[1].isValid
       /\ call.out.records[1].errors # <<>>
       /\ call.out.metadata.totalRecords = 1
       /\ call.out.metadata.invalidRecords = 1
       /\ call.out.metadata.validRecords = 0

\* The dataset came from a configured custom routine.
FromRoutine ==
  call.fn = "parse" /\ call.type = "custom" /\ call.in.routine = "dataset"

\* C14: every record of every engine (delimited, streaming delimited,
\* fixed-column, FIN, ISO20022, custom pattern and generic) is valid exactly
\* when its error list is absent or empty.
C14_ValidIffNoErrors ==
  (Returned /\ ~FromRoutine)
    => \A i \in 1..Len(call.out.records) :
         call.out.records[i].isValid <=> (call.out.records[i].errors = <<>>)

\* C14 witness: a dataset of the delimited engine with a valid and an
\* invalid record.
C14_Witness ==
  /\ Returned
  /\ call.fn = "parse"
  /\ call.type = "csv"
  /\ \E i, j \in 1..Len(call.out.records) :
       /\ call.out.records[i].isValid
       /\ ~call.out.records[j].isValid
       /\ call.out.records[j].errors # <<>>

\* C15: in every returned dataset the record indexes are strictly
\* increasing along the records sequence.
C15_IndexesIncrease ==
  Returned
    => \A i, j \in 1..Len(call.out.records) :
         i < j => call.out.records[i].index < call.out.records[j].index

\* C16: parse leaves the caller's config, fieldDefinitions included, as it
\* was given.
C16_ConfigUnchanged ==
  (call # NoCall /\ call.fn = "parse")
    => call.out.callerConfig = call.in.config

\* C19: a record of the fixed-column engine is invalid exactly when some
\* required definition has an empty trimmed substring, and its error list
\* holds one error per such definition.
C19_RequiredValidation ==
  (Returned /\ call.fn = "parse" /\ call.type = "fixed-width")
    => LET lines == SelectSeq(call.in.data, NonBlank)
           defs == call.out.outConfig.fieldDefinitions.items
           Missing(line) ==
             {k \in 1..Len(defs) :
                /\ defs[k].required
                /\ Trim(Substring(line, defs[k].start,
                                  defs[k].start + defs[k].length)) = <<>>}
       IN \A i \in 1..Len(call.out.records) :
            /\ ~call.out.records[i].isValid <=> (Missing(lines[i]) # {})
            /\ Len(call.out.records[i].errors) = Cardinality(Missing(lines[i]))

\* The single-record error result.
IsErrorResult(out) ==
  /\ out.returned
  /\ Len(out.records) = 1
  /\ ~out.records[1].isValid
  /\ out.records[1].errors # <<>>

\* C20: with a routine configured the result of the custom engine is the
\* dataset the routine returned or a single-record error result; the
\* pattern tier decides only without a routine, the generic fallback only
\* without routine and pattern.
C20_RoutineTierAlone ==
  (call # NoCall /\ call.fn = "parse" /\ call.type = "custom")
    => /\ call.in.routine # "none"
            => \/ /\ call.in.routine = "dataset"
                  /\ call.out.returned
                  /\ call.out.records = call.in.given.records
               \/ IsErrorResult(call.out)
       /\ (call.in.routine = "none" /\ call.in.pattern # "none")
            => call.out = parseWithPattern(call.in)
       /\ (call.in.routine = "none" /\ call.in.pattern = "none")
            => call.out = parseGeneric(call.in)

\* ------------------------------------------------------------- detection
\* parsers/index.ts (src/src/parsers/__tests__/finParser.test.ts:141-196).
MaxCount == 2          \* occurrences of one delimiter in the first line
MaxDetectLines == 3    \* non-empty lines of the data
MaxSuggestLines == 6   \* lines of the data given to suggestDelimiter

MinDelimiters == 2     \* commaCount >= 2 || ...
MinLines == 3          \* lines.length >= 3
DetectWindow == 10     \* lines.slice(0, 10)
SimilarWithin == 5     \* Math.abs(l - avgLength) < 5
MinMean == 20          \* avgLength > 20
SuggestWindow == 5     \* data.split('\n').slice(0, 5)

Delimiters == <<",", ";", "\t", "|">>

\* What detectParserType reads of the trimmed text: whether it starts with
\* '<?xml', '<Document', '<pain', '<camt' or '<pacs'; whether it starts with
\* '{1:'; whether /\{4:\s*\n?:20:/ matches; how often each delimiter occurs
\* in its first line; and the lengths of its non-empty lines.
LineLengths == {20, 21, 25, 30}

\* More lines than the window: DetectWindow lines of one length and one more.
LongLengths ==
  {[i \in 1..(DetectWindow + 1) |-> IF i <= DetectWindow THEN a ELSE b] :
     a \in LineLengths, b \in LineLengths}

DetectInputs ==
  {in \in [xmlStart : BOOLEAN, finStart : BOOLEAN, finBlock4 : BOOLEAN,
           counts : [1..Len(Delimiters) -> 0..MaxCount],
           lengths : SeqsOf(LineLengths, 0, MaxDetectLines) \cup LongLengths] :
     /\ ~(in.xmlStart /\ in.finStart)
     /\ in.lengths = <<>>
          => /\ ~in.xmlStart /\ ~in.finStart /\ ~in.finBlock4
             /\ \A d \in 1..Len(Delimiters) : in.counts[d] = 0}

RECURSIVE Sum(_)
Sum(seq) == IF seq = <<>> THEN 0 ELSE Head(seq) + Sum(Tail(seq))

Abs(x) == IF x < 0 THEN -x ELSE x

\* The fixed-width test of lines 166-174 on the first DetectWindow lengths.
\* avgLength = sum / n, so |l - avgLength| < 5 is |n * l - sum| < 5 * n and
\* avgLength > 20 is sum > 20 * n.
ConsistentLengths(lengths) ==
  /\ Len(lengths) >= MinLines
  /\ LET first == SubSeq(lengths, 1, Min(DetectWindow, Len(lengths)))
         n == Len(first)
     IN /\ \A i \in 1..n : Abs(n * first[i] - Sum(first)) < SimilarWithin * n
        /\ Sum(first) > MinMean * n

\* The delimiter test before the FIN test.
detectDelimitersFirst(in) ==
  IF in.xmlStart THEN "iso20022"
  ELSE IF \E d \in 1..Len(Delimiters) : in.counts[d] >= MinDelimiters
    THEN "csv"
  ELSE IF in.finStart \/ in.finBlock4 THEN "fin"
  ELSE IF ConsistentLengths(in.lengths) THEN "fixed-width"
  ELSE "custom"

\* detectParserType: finParser.test.ts:141-178.
detectParserType(in) ==
  IF in.xmlStart THEN "iso20022"
  ELSE IF in.finStart \/ in.finBlock4 THEN "fin"
  ELSE IF \E d \in 1..Len(Delimiters) : in.counts[d] >= MinDelimiters
    THEN "csv"
  ELSE IF ConsistentLengths(in.lengths) THEN "fixed-width"
  ELSE "custom"

\* The lines suggestDelimiter can be given: no or one character each.
SuggestLines == {<<>>, <<"a">>} \cup {<<Delimiters[d]>> : d \in 1..Len(Delimiters)}
SuggestInputs == SeqsOf(SuggestLines, 1, MaxSuggestLines)

RECURSIVE Occurrences(_, _)
\* (text.match(new RegExp(delimiter, 'g')) || []).length for one line.
Occurrences(line, ch) ==
  IF line = <<>> THEN 0
  ELSE (IF Head(line) = ch THEN 1 ELSE 0) + Occurrences(Tail(line), ch)

\* The count of one delimiter in the first SuggestWindow lines joined with
\* '\n': finParser.test.ts:181, 188.
DelimiterCount(lines, ch) ==
  LET firstLines == SubSeq(lines, 1, Min(SuggestWindow, Len(lines)))
  IN Sum([i \in 1..Len(firstLines) |-> Occurrences(firstLines[i], ch)])

\* The comparison of line 189 with >= in place of >.
TakesOverOnTie(count, maxCount) == count >= maxCount

\* if (count > maxCount): finParser.test.ts:189.
TakesOver(count, maxCount) == count > maxCount

RECURSIVE SuggestLoop(_, _, _, _)
\* The for loop of lines 187-193, from delimiter d on.
SuggestLoop(lines, d, bestDelimiter, maxCount) ==
  IF d > Len(Delimiters) THEN bestDelimiter
  ELSE LET count == DelimiterCount(lines, Delimiters[d])
       IN IF TakesOver(count, maxCount)
            THEN SuggestLoop(lines, d + 1, Delimiters[d], count)
            ELSE SuggestLoop(lines, d + 1, bestDelimiter, maxCount)

\* suggestDelimiter: finParser.test.ts:180-196.
suggestDelimiter(lines) == SuggestLoop(lines, 1, ",", 0)

DetectCall ==
  /\ call = NoCall
  /\ \E in \in DetectInputs :
       call' = Call("detectParserType", "none", in, detectParserType(in))
  /\ UNCHANGED <<serviceVars, workerVars, streamVars>>

SuggestCall ==
  /\ call = NoCall
  /\ \E in \in SuggestInputs :
       call' = Call("suggestDelimiter", "none", in, suggestDelimiter(in))
  /\ UNCHANGED <<serviceVars, workerVars, streamVars>>

NextDetect == DetectCall \/ SuggestCall

SpecDetect == EngineStart /\ [][NextDetect]_vars

\* The rules of detection as conditions on the input, each without the ones
\* before it.
XmlRule(in) == in.xmlStart
FinRule(in) == in.finStart \/ in.finBlock4
CsvRule(in) == \E d \in 1..Len(Delimiters) : in.counts[d] >= 2

\* The lengths the fixed-width rule looks at, and n times their distance from
\* their mean.
Sampled(in) == SubSeq(in.lengths, 1, Min(10, Len(in.lengths)))
Distance(in, i) == Abs(Len(Sampled(in)) * Sampled(in)[i] - Sum(Sampled(in)))

FixedRuleBelow5(in) ==
  /\ Len(in.lengths) >= 3
  /\ \A i \in 1..Len(Sampled(in)) : Distance(in, i) < 5 * Len(Sampled(in))
  /\ Sum(Sampled(in)) > 20 * Len(Sampled(in))

FixedRuleWithin5(in) ==
  /\ Len(in.lengths) >= 3
  /\ \A i \in 1..Len(Sampled(in)) : Distance(in, i) <= 5 * Len(Sampled(in))
  /\ Sum(Sampled(in)) > 20 * Len(Sampled(in))

FirstMatch(in, out, fixedRule) ==
  /\ out \in ParserTypes
  /\ XmlRule(in) => out = "iso20022"
  /\ ~XmlRule(in) /\ FinRule(in) => out = "fin"
  /\ ~XmlRule(in) /\ ~FinRule(in) /\ CsvRule(in) => out = "csv"
  /\ ~XmlRule(in) /\ ~FinRule(in) /\ ~CsvRule(in) /\ fixedRule
       => out = "fixed-width"
  /\ ~XmlRule(in) /\ ~FinRule(in) /\ ~CsvRule(in) /\ ~fixedRule
       => out = "custom"

\* C17: detectParserType returns the tag of the first rule that matches, in
\* the order XML start, FIN start or block 4 with field 20, two occurrences
\* of one delimiter in the first line, at least three non-empty lines whose
\* first ten lengths all lie within 5 characters (5 included) of their mean
\* and whose mean exceeds 20, and custom otherwise.
C17_FirstMatchWithin5 ==
  call.fn = "detectParserType"
    => FirstMatch(call.in, call.out, FixedRuleWithin5(call.in))

\* C17, with the distance from the mean strictly below 5 characters: the tag
\* returned is that of the first matching rule for every input.
C17_FirstMatchBelow5 ==
  call.fn = "detectParserType"
    => FirstMatch(call.in, call.out, FixedRuleBelow5(call.in))

\* A text of three lines, one of them exactly 5 characters from the mean,
\* with a mean above 20 and no earlier rule matching, detected as custom.
C17_Witness ==
  /\ call.fn = "detectParserType"
  /\ ~XmlRule(call.in) /\ ~FinRule(call.in) /\ ~CsvRule(call.in)
  /\ FixedRuleWithin5(call.in) /\ ~FixedRuleBelow5(call.in)
  /\ call.out = "custom"

\* The number of occurrences of candidate d in the first five lines.
Counted(lines, d) ==
  Sum([i \in 1..Min(5, Len(lines)) |-> Occurrences(lines[i], Delimiters[d])])

\* C18: suggestDelimiter returns the candidate among comma, semicolon, tab,
\* pipe with the highest count over the first 5 lines, the earliest of them
\* on a tie, and comma when no candidate occurs.
C18_SuggestHighestCount ==
  call.fn = "suggestDelimiter"
    => \E d \in 1..Len(Delimiters) :
         /\ call.out = Delimiters[d]
         /\ \A e \in 1..Len(Delimiters) :
              Counted(call.in, e) <= Counted(call.in, d)
         /\ \A e \in 1..(d - 1) : Counted(call.in, e) < Counted(call.in, d)

\* A text of more than five lines in which two candidates tie within the
\* first five lines, the later one occurs once more in the sixth line, and
\* the earlier one is returned.
C18_Witness ==
  /\ call.fn = "suggestDelimiter"
  /\ Len(call.in) > 5
  /\ \E d \in 1..Len(Delimiters) :
       \E e \in (d + 1)..Len(Delimiters) :
         /\ Counted(call.in, d) > 0
         /\ Counted(call.in, d) = Counted(call.in, e)
         /\ Occurrences(call.in[6], Delimiters[e]) > 0
         /\ call.out = Delimiters[d]

\* C23: a line that matches a header, footer or transaction prefix pattern
\* is classified by that pattern whatever its position; a line matching no
\* pattern is header when first, footer when last, and data otherwise.
C23_PatternOverridesPosition ==
  call.fn = "determineRecordType"
    => LET in == call.in
       IN /\ in.line \in HeaderStarts => call.out = "header"
          /\ in.line \in FooterStarts => call.out = "footer"
          /\ in.line \in TransactionStarts => call.out = "transaction"
          /\ in.line \in OtherStarts
               => call.out = (IF in.index = 0 THEN "header"
                              ELSE IF in.index = in.total - 1 THEN "footer"
                              ELSE "data")

\* C24: for every field value the streaming delimited engine infers the
\* type the non-streaming one infers: null for an empty or missing value,
\* boolean only for true/false in any case, else number when the value parses
\* as a number, else date for the three date shapes, else string.
C24_SameInferredType ==
  call.fn = "inferType"
    => /\ call.out.streaming = call.out.plain
       /\ call.out.plain =
            (IF call.in \in {Absent, ""} THEN "null"
             ELSE IF LowerCase(call.in) \in {"true", "false"} THEN "boolean"
             ELSE IF call.in \in NumericValues \ BlankValues THEN "number"
             ELSE IF call.in \in DateValues THEN "date"
             ELSE "string")

\* C25: a buffer without a byte order mark, of any length, is classified as
\* UTF-16 exactly when the null bytes counted in the sample (its first
\* min(length, 65536) bytes) exceed a tenth of the sample; it is then
\* utf-16le when more nulls sit at odd than at even offsets and utf-16be
\* otherwise, with confidence 0.8.
C25_Utf16ByNullRatio ==
  (call.fn = "detectEncoding" /\ call.in.bom = "none")
    => LET nulls == call.in.evenNulls + call.in.oddNulls
           sample == IF call.in.length < 65536 THEN call.in.length ELSE 65536
           utf16 == call.out.encoding \in {"utf-16le", "utf-16be"}
       IN /\ utf16 <=> 10 * nulls > sample
          /\ utf16
               => /\ call.out.encoding =
                       (IF call.in.oddNulls > call.in.evenNulls
                          THEN "utf-16le" ELSE "utf-16be")
                  /\ call.out.confidence = 80

\* C29: the match loop of the pattern mode ends for every pattern that
\* compiles and every text, also when the pattern can match the empty
\* string.
C29_PatternLoopEnds ==
  call.fn = "parseWithPattern"
    ~> (call.fn = "parseWithPattern" /\ call.out.done)

====
